---------------------------- MODULE Spec2Model ----------------------------
(***************************************************************************)
(* A model of the dimtypes crate: Quantity<T,L,M,I,TEMP> wraps one f64     *)
(* (value_si) and carries its five dimension exponents in the type.  The   *)
(* model keeps the exponents as a 5-tuple of integers beside the value and *)
(* computes the value with IEEE-754 binary64 arithmetic (round to nearest, *)
(* ties to even, signed zeros, subnormals, infinities, NaN).               *)
(***************************************************************************)
EXTENDS Integers, Sequences, FiniteSets, TLC

(***************************************************************************)
(* Natural numbers wider than 32-bit integers: little-endian            *)
(* sequences of limbs below Base, without high zero limbs; <<>> is 0.      *)
(* They carry the 53-bit significands of f64 and their exact products.     *)
(***************************************************************************)
LimbBits == 15
Base == 2^LimbBits

RECURSIVE Norm(_)
Norm(n) ==
  IF n = <<>> THEN n
  ELSE IF n[Len(n)] = 0 THEN Norm(SubSeq(n, 1, Len(n) - 1)) ELSE n

RECURSIVE NatToBig(_)
NatToBig(k) == IF k = 0 THEN <<>> ELSE <<k % Base>> \o NatToBig(k \div Base)

RECURSIVE AddC(_, _, _)
AddC(a, b, c) ==
  IF a = <<>> /\ b = <<>> THEN (IF c = 0 THEN <<>> ELSE <<c>>)
  ELSE LET x == (IF a = <<>> THEN 0 ELSE a[1]) + (IF b = <<>> THEN 0 ELSE b[1]) + c
       IN  <<x % Base>> \o AddC(IF a = <<>> THEN a ELSE Tail(a),
                                IF b = <<>> THEN b ELSE Tail(b), x \div Base)

BigAdd(a, b) == AddC(a, b, 0)

\* a - b for a >= b
RECURSIVE SubB(_, _, _)
SubB(a, b, c) ==
  IF a = <<>> THEN <<>>
  ELSE LET x == a[1] - (IF b = <<>> THEN 0 ELSE b[1]) - c
       IN  <<x % Base>> \o SubB(Tail(a), IF b = <<>> THEN b ELSE Tail(b),
                                IF x < 0 THEN 1 ELSE 0)

BigSub(a, b) == Norm(SubB(a, b, 0))

\* -1, 0, 1 as a < b, a = b, a > b
RECURSIVE CmpFrom(_, _, _)
CmpFrom(a, b, i) ==
  IF i = 0 THEN 0
  ELSE IF a[i] < b[i] THEN -1
  ELSE IF a[i] > b[i] THEN 1
  ELSE CmpFrom(a, b, i - 1)

BigCmp(a, b) ==
  IF Len(a) < Len(b) THEN -1
  ELSE IF Len(a) > Len(b) THEN 1
  ELSE CmpFrom(a, b, Len(a))

\* a * k for 0 <= k <= Base
RECURSIVE MulSmallC(_, _, _)
MulSmallC(a, k, c) ==
  IF a = <<>> THEN (IF c = 0 THEN <<>> ELSE NatToBig(c))
  ELSE LET x == a[1] * k + c
       IN  <<x % Base>> \o MulSmallC(Tail(a), k, x \div Base)

BigMulSmall(a, k) == IF k = 0 THEN <<>> ELSE MulSmallC(a, k, 0)

\* a * b, adding a * b[i] * Base^(i-1) from the high limb of b down
RECURSIVE MulFrom(_, _, _, _)
MulFrom(a, b, i, acc) ==
  IF i = 0 \/ Len(acc) < 0 THEN acc
  ELSE MulFrom(a, b, i - 1,
               BigAdd(BigMulSmall(a, b[i]), IF acc = <<>> THEN acc ELSE <<0>> \o acc))

BigMul(a, b) ==
  IF a = <<>> \/ b = <<>> THEN <<>>
  ELSE IF Len(a) < Len(b) THEN MulFrom(b, a, Len(a), <<>>)
  ELSE MulFrom(a, b, Len(b), <<>>)

RECURSIVE BigPow(_, _)
BigPow(a, n) == IF n = 0 THEN <<1>> ELSE BigMul(BigPow(a, n - 1), a)

Zeros(n) == [i \in 1..n |-> 0]

\* a * 2^s
ShiftL(a, s) ==
  IF a = <<>> THEN a
  ELSE BigMulSmall(Zeros(s \div LimbBits) \o a, 2^(s % LimbBits))

\* floor(a / k) for 1 <= k <= Base, from the high limb down
RECURSIVE DivSmallFrom(_, _, _, _)
DivSmallFrom(a, k, i, r) ==
  IF i = 0 THEN <<>>
  ELSE LET x == r * Base + a[i]
       IN  DivSmallFrom(a, k, i - 1, x % k) \o <<x \div k>>

BigDivSmall(a, k) == Norm(DivSmallFrom(a, k, Len(a), 0))

\* floor(a / 2^s)
ShiftR(a, s) ==
  LET d == s \div LimbBits
  IN  IF d >= Len(a) THEN <<>>
      ELSE BigDivSmall(SubSeq(a, d + 1, Len(a)), 2^(s % LimbBits))

RECURSIVE SmallBitLen(_)
SmallBitLen(k) == IF k = 0 THEN 0 ELSE 1 + SmallBitLen(k \div 2)

BitLen(a) ==
  IF a = <<>> THEN 0 ELSE LimbBits * (Len(a) - 1) + SmallBitLen(a[Len(a)])

IsOdd(a) == a # <<>> /\ a[1] % 2 = 1

\* One step of binary long division by d: st.q is the quotient so far and
\* st.r the remainder, below d.
DivStep(st, d) ==
  LET r2 == BigMulSmall(st.r, 2)
      ge == BigCmp(r2, d) >= 0
  IN  [q |-> IF ge THEN BigAdd(BigMulSmall(st.q, 2), <<1>>) ELSE BigMulSmall(st.q, 2),
       r |-> IF ge THEN BigSub(r2, d) ELSE r2]

\* j steps
RECURSIVE DivSteps(_, _, _)
DivSteps(st, d, j) == IF j = 0 THEN st ELSE DivSteps(DivStep(st, d), d, j - 1)

\* k more steps of the long division; once the remainder is 0 the remaining
\* quotient bits are 0.
RECURSIVE DivBits(_, _, _)
DivBits(st, d, k) ==
  IF k = 0 THEN st
  ELSE IF st.r = <<>> THEN [q |-> ShiftL(st.q, k), r |-> <<>>]
  ELSE IF k >= 8 THEN DivBits(DivSteps(st, d, 8), d, k - 8)
  ELSE DivSteps(st, d, k)

(***************************************************************************)
(* f64: the type of Quantity::value_si.  A finite value is                 *)
(* (-1)^s * m * 2^e with m below 2^MantBits; it is kept canonical (m has   *)
(* exactly MantBits bits, or e = EMin for a subnormal, or m = <<>> and     *)
(* e = 0 for a zero), so that equal records are equal bit patterns.        *)
(***************************************************************************)
MantBits == 53
EMin == -1074
EMax == 971

Max(i, j) == IF i >= j THEN i ELSE j
Min(i, j) == IF i <= j THEN i ELSE j
Abs(i) == IF i < 0 THEN -i ELSE i

NaN == [k |-> "nan", s |-> 0, m |-> <<>>, e |-> 0]
Inf(s) == [k |-> "inf", s |-> s, m |-> <<>>, e |-> 0]
Zero(s) == [k |-> "fin", s |-> s, m |-> <<>>, e |-> 0]
Fin(s, m, e) == [k |-> "fin", s |-> s, m |-> m, e |-> e]

IsNaN(x) == x.k = "nan"
IsInf(x) == x.k = "inf"
IsFinite(x) == x.k = "fin"
IsZero(x) == x.k = "fin" /\ x.m = <<>>

\* The f64 nearest to (-1)^s * (n + f) * 2^e, where 0 < f < 1 when sticky and
\* f = 0 otherwise: ties go to the even significand, a result of 2^1024 or
\* more becomes an infinity, one below 2^EMin loses precision gradually.
Round(s, n, e, sticky) ==
  IF n = <<>> THEN Zero(s)
  ELSE
    LET len   == BitLen(n)
        shift == Max(len - MantBits, EMin - e)
    IN  IF shift <= 0
        THEN LET t == Min(MantBits - len, e - EMin)
             IN  IF e - t > EMax THEN Inf(s) ELSE Fin(s, ShiftL(n, t), e - t)
        ELSE LET q    == ShiftR(n, shift)
                 rem  == BigSub(n, ShiftL(q, shift))
                 c    == BigCmp(rem, ShiftL(<<1>>, shift - 1))
                 up   == c > 0 \/ (c = 0 /\ (sticky \/ IsOdd(q)))
                 q1   == IF up THEN BigAdd(q, <<1>>) ELSE q
                 over == BitLen(q1) > MantBits
                 m    == IF over THEN ShiftR(q1, 1) ELSE q1
                 e1   == IF over THEN e + shift + 1 ELSE e + shift
             IN  IF m = <<>> THEN Zero(s)
                 ELSE IF e1 > EMax THEN Inf(s)
                 ELSE Fin(s, m, e1)

\* whether n * 2^e is an f64
Representable(n, e) ==
  LET shift == Max(BitLen(n) - MantBits, EMin - e)
  IN  /\ shift <= 0 \/ ShiftL(ShiftR(n, shift), shift) = n
      /\ ~IsInf(Round(0, n, e, FALSE))

\* `k as f64` for an integer k
FromInt(k) == Round(IF k < 0 THEN 1 ELSE 0, NatToBig(Abs(k)), 0, FALSE)

\* unary minus on f64
FNeg(x) == IF IsNaN(x) THEN NaN ELSE [x EXCEPT !.s = 1 - x.s]

\* the sum of two finite non-zero values
AddFinite(x, y) ==
  LET hi == IF x.e >= y.e THEN x ELSE y
      lo == IF x.e >= y.e THEN y ELSE x
      far == hi.e - lo.e > MantBits + 3
      \* far apart, lo only decides the rounding direction
      e  == IF far THEN hi.e - 2 ELSE lo.e
      nh == ShiftL(hi.m, hi.e - e)
      nl == IF far THEN <<>> ELSE lo.m
      same == hi.s = lo.s
      c  == IF far \/ same THEN 1 ELSE BigCmp(nh, nl)
      n  == IF far THEN (IF same THEN nh ELSE BigSub(nh, <<1>>))
            ELSE IF same THEN BigAdd(nh, nl)
            ELSE IF c > 0 THEN BigSub(nh, nl) ELSE BigSub(nl, nh)
  IN  IF c = 0 THEN Zero(0) ELSE Round(IF c > 0 THEN hi.s ELSE lo.s, n, e, far)

\* x + y on f64
FAdd(x, y) ==
  IF IsNaN(x) \/ IsNaN(y) THEN NaN
  ELSE IF IsInf(x) THEN (IF IsInf(y) /\ x.s # y.s THEN NaN ELSE x)
  ELSE IF IsInf(y) THEN y
  ELSE IF IsZero(x) /\ IsZero(y) THEN Zero(IF x.s = 1 /\ y.s = 1 THEN 1 ELSE 0)
  ELSE IF IsZero(x) THEN y
  ELSE IF IsZero(y) THEN x
  ELSE AddFinite(x, y)

\* x - y on f64
FSub(x, y) == FAdd(x, FNeg(y))

\* x * y on f64
FMul(x, y) ==
  LET s == (x.s + y.s) % 2
  IN  IF IsNaN(x) \/ IsNaN(y) THEN NaN
      ELSE IF IsInf(x) \/ IsInf(y)
           THEN (IF IsZero(x) \/ IsZero(y) THEN NaN ELSE Inf(s))
      ELSE IF IsZero(x) \/ IsZero(y) THEN Zero(s)
      ELSE Round(s, BigMul(x.m, y.m), x.e + y.e, FALSE)

\* the quotient of two finite non-zero values
DivFinite(x, y) ==
  LET t  == Max(0, BitLen(x.m) - BitLen(y.m))
      d  == ShiftL(y.m, t)
      k  == MantBits + 3 + BitLen(d) - BitLen(x.m)
      ge == BigCmp(x.m, d) >= 0
      r  == DivBits([q |-> IF ge THEN <<1>> ELSE <<>>,
                     r |-> IF ge THEN BigSub(x.m, d) ELSE x.m], d, k)
  IN  Round((x.s + y.s) % 2, r.q, x.e - y.e + t - k, r.r # <<>>)

\* x / y on f64
FDiv(x, y) ==
  LET s == (x.s + y.s) % 2
  IN  IF IsNaN(x) \/ IsNaN(y) THEN NaN
      ELSE IF IsInf(x) THEN (IF IsInf(y) THEN NaN ELSE Inf(s))
      ELSE IF IsInf(y) THEN Zero(s)
      ELSE IF IsZero(y) THEN (IF IsZero(x) THEN NaN ELSE Inf(s))
      ELSE IF IsZero(x) THEN Zero(s)
      ELSE DivFinite(x, y)

\* x == y on f64: a NaN equals nothing, the two zeros are equal
FEq(x, y) ==
  /\ ~IsNaN(x) /\ ~IsNaN(y)
  /\ (x = y \/ (IsZero(x) /\ IsZero(y)))

\* a decimal literal num/den (both exactly representable), as rustc reads it
Lit(num, den) == FDiv(FromInt(num), FromInt(den))

\* x < y on f64 (false when either is a NaN)
MagLess(x, y) ==
  \/ x.e < y.e /\ y.m # <<>>
  \/ x.m = <<>> /\ y.m # <<>>
  \/ x.e = y.e /\ BigCmp(x.m, y.m) < 0

FLt(x, y) ==
  /\ ~IsNaN(x) /\ ~IsNaN(y) /\ ~(IsZero(x) /\ IsZero(y))
  /\ IF x.s # y.s THEN x.s = 1
     ELSE IF IsInf(x) \/ IsInf(y)
          THEN (IF x.s = 0 THEN ~IsInf(x) /\ IsInf(y) ELSE IsInf(x) /\ ~IsInf(y))
     ELSE IF x.s = 0 THEN MagLess(x, y) ELSE MagLess(y, x)

FLe(x, y) == FLt(x, y) \/ FEq(x, y)

\* f64::abs
FAbs(x) == IF IsNaN(x) THEN NaN ELSE [x EXCEPT !.s = 0]

One == Fin(0, ShiftL(<<1>>, MantBits - 1), 1 - MantBits)

\* f64::powi(x, n) for an i32 n, as the compiler's runtime computes it: by
\* repeated squaring on |n|, and the reciprocal of that for a negative n.
RECURSIVE PowiLoop(_, _)
PowiLoop(st, b) ==
  LET r1 == IF b % 2 = 1 THEN FMul(st.r, st.a) ELSE st.r
  IN  IF b > 0 /\ (IsNaN(st.a) \/ IsNaN(st.r)) THEN NaN  \* NaN is absorbing
      ELSE IF b \div 2 = 0 THEN r1
      ELSE PowiLoop([r |-> r1, a |-> FMul(st.a, st.a)], b \div 2)

powi(x, n) ==
  LET r == PowiLoop([r |-> One, a |-> x], Abs(n))
  IN  IF n < 0 THEN FDiv(One, r) ELSE r

\* The position of a non-negative finite f64 among the non-negative finite
\* f64 in increasing order, and the f64 at a position (an infinity past the
\* largest).
Ord(x) == BigAdd(x.m, ShiftL(NatToBig(x.e - EMin), MantBits - 1))

FromOrd(o) ==
  LET q == ShiftR(o, MantBits - 1)
  IN  IF q = <<>> THEN (IF o = <<>> THEN Zero(0) ELSE Fin(0, o, EMin))
      ELSE LET e == EMin + q[1] - 1
           IN  IF e > EMax THEN Inf(0)
               ELSE Fin(0, BigAdd(BigSub(o, ShiftL(q, MantBits - 1)),
                                  ShiftL(<<1>>, MantBits - 1)), e)

\* the f64 k places above (below, for k < 0) the positive finite x
Step(x, k) ==
  IF k >= 0 THEN FromOrd(BigAdd(Ord(x), NatToBig(k)))
  ELSE IF BigCmp(Ord(x), NatToBig(-k)) <= 0 THEN Zero(0)
  ELSE FromOrd(BigSub(Ord(x), NatToBig(-k)))

\* The largest r with r^n * B <= A, found bit by bit from bit i down.
RootBit(st, i) ==
  LET c == BigAdd(st.r, ShiftL(<<1>>, i))
  IN  IF BigCmp(BigMul(BigPow(c, st.n), st.B), st.A) <= 0
      THEN [st EXCEPT !.r = c] ELSE st

\* bits i down to i - j + 1
RECURSIVE RootSteps(_, _, _)
RootSteps(st, i, j) == IF j = 0 THEN st ELSE RootSteps(RootBit(st, i), i - 1, j - 1)

RECURSIVE RootBits(_, _)
RootBits(st, i) ==
  IF i < 0 THEN st.r
  ELSE IF i >= 3 /\ st.n > 0 THEN RootBits(RootSteps(st, i, 4), i - 4)
  ELSE RootSteps(st, i, i + 1).r

RootWidth == MantBits + 3

\* For a positive finite x and R # 0: the f64 nearest to the real x^(1/R),
\* and whether that real number is itself an f64.
RootNearest(x, R) ==
  LET n  == Abs(R)
      len == BitLen(x.m)
      E  == IF R > 0 THEN (x.e + len - RootWidth * n) \div n
                     ELSE (0 - x.e - len - RootWidth * n) \div n
      A  == IF R > 0 THEN ShiftL(x.m, x.e - E * n) ELSE ShiftL(<<1>>, 0 - x.e - E * n)
      B  == IF R > 0 THEN <<1>> ELSE x.m
      r  == RootBits([r |-> <<>>, A |-> A, B |-> B, n |-> n], RootWidth + 1)
      sticky == BigMul(BigPow(r, n), B) # A
      c  == Round(0, r, E, sticky)
  IN  [c |-> c, exact |-> ~sticky /\ Representable(r, E)]

(***************************************************************************)
(* f64::powf(x, 1.0/(R as f64)), the only way the crate calls powf.  The   *)
(* accuracy of powf is left to the platform's libm, so the result is a set *)
(* of f64: the ones within the libm's error of the real x^(1/(R as f64)).  *)
(***************************************************************************)
\* A const generic of type isize: hi * 2^32 + lo with lo an i32, hi >= 0
\* (and lo >= 0 when hi > 0).
Isize(n) == [hi |-> 0, lo |-> n]
IsI32(P) == P.hi = 0

\* `P as i32`: the low 32 bits, read as a signed number
as_i32(P) == P.lo

\* `R as f64`
as_f64(R) ==
  IF IsI32(R) THEN FromInt(R.lo)
  ELSE Round(0, BigAdd(ShiftL(NatToBig(R.hi), 32), NatToBig(R.lo)), 0, FALSE)

\* an integer no smaller than |log2 x| for a positive finite x
LogBound(x) ==
  LET l == x.e + BitLen(x.m) - 1
  IN  IF x.m = ShiftL(<<1>>, BitLen(x.m) - 1) THEN Abs(l) ELSE Max(Abs(l), Abs(l + 1))

\* whether x is within 2^-23 of 1
NearOne(x) ==
  /\ IsFinite(x) /\ x.s = 0
  /\ FLe(FAbs(FSub(x, One)), Fin(0, ShiftL(<<1>>, MantBits - 1), 0 - 23 - (MantBits - 1)))

\* the f64 within w places of a positive c (c itself when it is 0 or infinite)
Around(c, w) ==
  IF ~IsFinite(c) \/ IsZero(c) THEN {c} ELSE {Step(c, k) : k \in (0 - w)..w}

IsPow2(n) == \E k \in 0..30 : n = 2^k

\* How many f64 away from the nearest one a libm may land: one place when
\* the real result is no f64, and as many more as the rounding of
\* 1.0/(R as f64) moves the result (none when 1/R is a power of two).
PowfSlack(x, n, exact) ==
  IF IsPow2(n) THEN (IF exact THEN 0 ELSE 1)
  ELSE 1 + (7 * LogBound(x) + 10 * n - 1) \div (10 * n)

\* the inputs for which the model computes powf
PowfModelled(x, R) ==
  \/ IsI32(R) /\ R.lo # 0
  \/ ~IsI32(R) /\ (IsNaN(x) \/ IsInf(x) \/ IsZero(x) \/ NearOne(x))

powf_inv(x, R) ==
  LET inv == IsI32(R) /\ R.lo < 0
      odd == IsI32(R) /\ R.lo \in {1, -1}      \* 1.0/R is an odd integer
  IN  IF IsNaN(x) THEN {NaN}
      ELSE IF FEq(x, One) THEN {One}
      ELSE IF IsZero(x) THEN
             {IF inv THEN Inf(IF odd THEN x.s ELSE 0) ELSE Zero(IF odd THEN x.s ELSE 0)}
      ELSE IF IsInf(x) THEN
             {IF inv THEN Zero(IF odd THEN x.s ELSE 0) ELSE Inf(IF odd THEN x.s ELSE 0)}
      ELSE IF x.s = 1 /\ ~odd THEN {NaN}
      ELSE IF ~IsI32(R) THEN Around(One, 1)
      ELSE LET rn == RootNearest(FAbs(x), R.lo)
               w  == PowfSlack(FAbs(x), Abs(R.lo), rn.exact)
           IN  {[c EXCEPT !.s = x.s] : c \in Around(rn.c, w)}

(***************************************************************************)
(* f64::exp2 and f64::log2 are the platform's libm functions.  They are    *)
(* exact where the result is: exp2 of an integer, log2 of a power of two;  *)
(* elsewhere libm is allowed the neighbours of the nearest f64, and the    *)
(* model lets the result be any of them.  The nearest f64 is computed in   *)
(* fixed point with 105 fraction bits from the table of 2^(2^-i).          *)
(***************************************************************************)
\* the f64s next to c, and c
Neighbours(c) == {[d EXCEPT !.s = c.s] : d \in Around(FAbs(c), 1)}

\* floor(2^(2^-i) * 2^105) for i = 1, 2, ...
Exp2Table ==
  << <<19925, 27725, 17815, 19600, 32375, 31129, 13572, 1>>,
     <<24761, 26904, 29802, 5421, 25454, 30760, 6199, 1>>,
     <<7522, 8980, 28606, 31452, 31394, 24817, 2965, 1>>,
     <<12421, 19164, 19548, 3938, 29458, 25011, 1450, 1>>,
     <<27929, 21050, 29666, 29754, 11018, 17228, 717, 1>>,
     <<7924, 11049, 14270, 24814, 28416, 26873, 356, 1>>,
     <<26331, 6840, 16979, 13677, 30310, 30375, 177, 1>>,
     <<22563, 11343, 2381, 16086, 13689, 27625, 88, 1>>,
     <<10654, 26442, 4088, 2538, 13368, 12827, 44, 1>>,
     <<4404, 1791, 873, 20165, 17873, 6167, 22, 1>>,
     <<2744, 29351, 2373, 20986, 8320, 3022, 11, 1>>,
     <<25493, 3161, 20935, 18283, 24571, 17879, 5, 1>>,
     <<25345, 13138, 27493, 8086, 1015, 25320, 2, 1>>,
     <<26904, 24944, 3716, 10569, 1787, 12659, 1, 1>>,
     <<13098, 5621, 15010, 24660, 9405, 22713, 0, 1>>,
     <<5269, 25341, 8240, 30144, 19118, 11356, 0, 1>>,
     <<21359, 13831, 29047, 15514, 9067, 5678, 0, 1>>,
     <<22912, 24354, 25894, 24262, 4410, 2839, 0, 1>>,
     <<12403, 14347, 2096, 20355, 18558, 1419, 0, 1>>,
     <<21517, 25155, 20175, 20425, 25655, 709, 0, 1>>,
     <<10679, 26408, 27839, 29158, 29209, 354, 0, 1>>,
     <<28021, 4515, 30731, 15219, 14604, 177, 0, 1>>,
     <<18304, 1127, 3195, 3674, 23686, 88, 0, 1>>,
     <<13021, 7067, 2652, 853, 11843, 44, 0, 1>>,
     <<28813, 31095, 17973, 16564, 5921, 22, 0, 1>>,
     <<17016, 31312, 25436, 24604, 2960, 11, 0, 1>>,
     <<21590, 31970, 446, 12287, 17864, 5, 0, 1>>,
     <<19203, 20074, 21731, 6139, 25316, 2, 0, 1>>,
     <<30777, 27444, 28530, 3068, 12658, 1, 0, 1>>,
     <<17947, 22170, 6393, 1534, 22713, 0, 0, 1>>,
     <<10295, 29581, 1228, 17151, 11356, 0, 0, 1>>,
     <<21947, 15318, 16506, 8575, 5678, 0, 0, 1>>,
     <<11088, 7791, 24514, 4287, 2839, 0, 0, 1>>,
     <<21958, 12120, 28610, 18527, 1419, 0, 0, 1>>,
     <<19178, 16308, 30681, 25647, 709, 0, 0, 1>>,
     <<11639, 27100, 31722, 29207, 354, 0, 0, 1>>,
     <<22716, 30574, 32244, 14603, 177, 0, 0, 1>>,
     <<15582, 11351, 32506, 23685, 88, 0, 0, 1>>,
     <<25231, 4691, 32637, 11842, 44, 0, 0, 1>>,
     <<29263, 18483, 16318, 5921, 22, 0, 0, 1>>,
     <<14697, 9180, 24543, 2960, 11, 0, 0, 1>>,
     <<27845, 20958, 12271, 17864, 5, 0, 0, 1>>,
     <<19046, 26859, 6135, 25316, 2, 0, 0, 1>>,
     <<27188, 29812, 3067, 12658, 1, 0, 0, 1>>,
     <<5722, 31290, 1533, 22713, 0, 0, 0, 1>>,
     <<893, 32029, 17150, 11356, 0, 0, 0, 1>>,
     <<16338, 16014, 8575, 5678, 0, 0, 0, 1>>,
     <<8046, 24391, 4287, 2839, 0, 0, 0, 1>>,
     <<20376, 28579, 18527, 1419, 0, 0, 0, 1>>,
     <<26564, 30673, 25647, 709, 0, 0, 0, 1>>,
     <<29664, 31720, 29207, 354, 0, 0, 0, 1>>,
     <<14831, 32244, 14603, 177, 0, 0, 0, 1>>,
     <<7415, 32506, 23685, 88, 0, 0, 0, 1>>,
     <<3707, 32637, 11842, 44, 0, 0, 0, 1>>,
     <<18237, 16318, 5921, 22, 0, 0, 0, 1>>,
     <<9118, 24543, 2960, 11, 0, 0, 0, 1>>,
     <<20943, 12271, 17864, 5, 0, 0, 0, 1>>,
     <<26855, 6135, 25316, 2, 0, 0, 0, 1>>,
     <<29811, 3067, 12658, 1, 0, 0, 0, 1>>,
     <<31289, 1533, 22713, 0, 0, 0, 0, 1>>,
     <<32028, 17150, 11356, 0, 0, 0, 0, 1>>,
     <<16014, 8575, 5678, 0, 0, 0, 0, 1>>,
     <<24391, 4287, 2839, 0, 0, 0, 0, 1>>,
     <<28579, 18527, 1419, 0, 0, 0, 0, 1>>,
     <<30673, 25647, 709, 0, 0, 0, 0, 1>>,
     <<31720, 29207, 354, 0, 0, 0, 0, 1>>,
     <<32244, 14603, 177, 0, 0, 0, 0, 1>>,
     <<32506, 23685, 88, 0, 0, 0, 0, 1>>,
     <<32637, 11842, 44, 0, 0, 0, 0, 1>>,
     <<16318, 5921, 22, 0, 0, 0, 0, 1>>,
     <<24543, 2960, 11, 0, 0, 0, 0, 1>>,
     <<12271, 17864, 5, 0, 0, 0, 0, 1>>,
     <<6135, 25316, 2, 0, 0, 0, 0, 1>>,
     <<3067, 12658, 1, 0, 0, 0, 0, 1>>,
     <<1533, 22713, 0, 0, 0, 0, 0, 1>>,
     <<17150, 11356, 0, 0, 0, 0, 0, 1>>,
     <<8575, 5678, 0, 0, 0, 0, 0, 1>>,
     <<4287, 2839, 0, 0, 0, 0, 0, 1>>,
     <<18527, 1419, 0, 0, 0, 0, 0, 1>>,
     <<25647, 709, 0, 0, 0, 0, 0, 1>>,
     <<29207, 354, 0, 0, 0, 0, 0, 1>>,
     <<14603, 177, 0, 0, 0, 0, 0, 1>>,
     <<23685, 88, 0, 0, 0, 0, 0, 1>>,
     <<11842, 44, 0, 0, 0, 0, 0, 1>>
  >>
FixOne == ShiftL(<<1>>, 105)
FixMul(x, y) == ShiftR(BigMul(x, y), 105)
LogSteps == Len(Exp2Table)
BitAt(n, j) == IsOdd(ShiftR(n, j))

\* the product of the 2^(2^-i) for the bits i = from .. to of the fraction
\* fr / 2^LogSteps that are set, times acc
RECURSIVE Exp2Steps(_, _, _, _)
Exp2Steps(fr, i, last, acc) ==
  IF acc = <<>> \/ i > last THEN acc
  ELSE Exp2Steps(fr, i + 1, last,
                 IF BitAt(fr, LogSteps - i) THEN FixMul(acc, Exp2Table[i]) ELSE acc)
Exp2Fraction(fr) ==
  Exp2Steps(fr, 64, LogSteps,
            Exp2Steps(fr, 43, 63, Exp2Steps(fr, 22, 42, Exp2Steps(fr, 1, 21, FixOne))))

\* a small natural number from its limbs
BigToNat(n) == IF n = <<>> THEN 0 ELSE IF Len(n) = 1 THEN n[1] ELSE n[1] + Base * n[2]

\* 2^(n + fr / 2^LogSteps) to the nearest f64
Exp2At(n, fr) == Round(0, Exp2Fraction(fr), n - 105, TRUE)
\* 2^x for a finite x that is not an integer, |x| = whole + fr / 2^LogSteps
Exp2Split(x, whole, fr) ==
  IF x.s = 0 THEN Exp2At(whole, fr)
  ELSE Exp2At(0 - whole - 1, BigSub(ShiftL(<<1>>, LogSteps), fr))
Exp2Whole(x) == BigToNat(ShiftR(x.m, 0 - x.e))
Exp2Nearest(x) ==
  Exp2Split(x, Exp2Whole(x),
            ShiftL(BigSub(x.m, ShiftL(ShiftR(x.m, 0 - x.e), 0 - x.e)), LogSteps + x.e))

\* the arguments the model follows exp2 on: NaN, the infinities, the
\* integers, what overflows or underflows to 0, and the rest below 2^10 in
\* magnitude whose last bit is 2^-LogSteps or more, with a normal result
IsInteger(x) == IsFinite(x) /\ (x.m = <<>> \/ x.e >= 0 \/ ShiftL(ShiftR(x.m, 0 - x.e), 0 - x.e) = x.m)
Exp2Limit == FromInt(1100)
Exp2Modelled(x) ==
  \/ ~IsFinite(x) \/ IsInteger(x) \/ FLe(Exp2Limit, FAbs(x))
  \/ 0 - x.e <= LogSteps /\ FLt(FAbs(x), FromInt(1020))

\* f64::exp2(x): the results libm allows
exp2(x) ==
  IF IsNaN(x) THEN {NaN}
  ELSE IF IsInf(x) THEN {IF x.s = 0 THEN x ELSE Zero(0)}
  ELSE IF FLe(Exp2Limit, FAbs(x)) THEN {IF x.s = 0 THEN Inf(0) ELSE Zero(0)}
  ELSE IF IsInteger(x)
       THEN {Round(0, <<1>>, IF x.s = 0 THEN Exp2Whole(x) ELSE 0 - Exp2Whole(x), FALSE)}
  ELSE Neighbours(Exp2Nearest(x))

\* the bits of log2(M / 2^105) for 2^105 <= M < 2^106: st.b is the bits found,
\* st.p the product of the 2^(2^-i) of the bits that are set
RECURSIVE Log2Steps(_, _, _, _)
Log2Steps(M, i, last, st) ==
  IF st.p = <<>> \/ i > last THEN st
  ELSE Log2Steps(M, i + 1, last,
                 IF BigCmp(FixMul(st.p, Exp2Table[i]), M) <= 0
                 THEN [p |-> FixMul(st.p, Exp2Table[i]), b |-> BigAdd(ShiftL(st.b, 1), <<1>>)]
                 ELSE [p |-> st.p, b |-> ShiftL(st.b, 1)])
Log2Fraction(M) ==
  Log2Steps(M, 64, LogSteps,
            Log2Steps(M, 43, 63,
                      Log2Steps(M, 22, 42, Log2Steps(M, 1, 21, [p |-> FixOne, b |-> <<>>])))).b

\* k + b / 2^LogSteps to the nearest f64
Log2At(k, b) ==
  IF k >= 0 THEN Round(0, BigAdd(ShiftL(NatToBig(k), LogSteps), b), 0 - LogSteps, TRUE)
  ELSE Round(1, BigSub(ShiftL(NatToBig(0 - k), LogSteps), b), 0 - LogSteps, TRUE)
\* log2 of a positive finite x that is not a power of two
Log2Nearest(x) ==
  Log2At(x.e + BitLen(x.m) - 1, Log2Fraction(ShiftL(x.m, 105 - (BitLen(x.m) - 1))))

IsPowerOfTwo(x) == IsFinite(x) /\ x.m # <<>> /\ x.m = ShiftL(<<1>>, BitLen(x.m) - 1)

\* the arguments the model follows log2 on: all but the subnormal numbers
\* and those within 2^-26 of 1 other than 1
Log2Modelled(x) ==
  \/ ~IsFinite(x) \/ IsZero(x) \/ x.s = 1
  \/ /\ BitLen(x.m) = MantBits
     /\ IsPowerOfTwo(x) \/ FLe(Step(One, 2^26), x) \/ FLe(x, Step(One, 0 - 2^27))

\* f64::log2(x): the results libm allows
log2(x) ==
  IF IsNaN(x) THEN {NaN}
  ELSE IF IsZero(x) THEN {Inf(1)}
  ELSE IF x.s = 1 THEN {NaN}
  ELSE IF IsInf(x) THEN {x}
  ELSE IF IsPowerOfTwo(x) THEN {FromInt(x.e + BitLen(x.m) - 1)}
  ELSE Neighbours(Log2Nearest(x))

\* std::f64::consts::LOG2_10 and LOG2_E
LOG2_10 == Fin(0, <<9073, 4851, 19772, 212>>, -51)
LOG2_E == Fin(0, <<766, 19031, 21789, 184>>, -52)

(***************************************************************************)
(* Text, as a sequence of characters.  `{:.N}` of an f64 writes the exact  *)
(* value rounded to N decimals, a half going to the even digit.            *)
(***************************************************************************)
Digit == <<"0", "1", "2", "3", "4", "5", "6", "7", "8", "9">>

\* the decimal digits of the natural number n, at least k of them
RECURSIVE DecDigits(_, _)
DecDigits(n, k) ==
  IF n = <<>> /\ k <= 0 THEN <<>>
  ELSE LET q == BigDivSmall(n, 10)
           r == BigSub(n, BigMulSmall(q, 10))
       IN  DecDigits(q, k - 1) \o <<Digit[(IF r = <<>> THEN 0 ELSE r[1]) + 1]>>

\* m * 10^digits, for 0 <= digits <= 8
TimesPow10(m, digits) == BigMulSmall(BigMulSmall(m, 10^Min(digits, 4)), 10^Max(digits - 4, 0))

\* q, the whole part of num / den, moved to the nearest integer: up when
\* the remainder is more than half of den, or half of it and q is odd
Nearest(q, c) == IF c > 0 \/ (c = 0 /\ IsOdd(q)) THEN BigAdd(q, <<1>>) ELSE q
DivRound(num, den, q) == Nearest(q, BigCmp(BigMulSmall(BigSub(num, BigMul(q, den)), 2), den))
\* num / (2^s * p10) rounded, for p10 below Base
ScaledDown(num, s, p10) ==
  DivRound(num, ShiftL(NatToBig(p10), s), BigDivSmall(ShiftR(num, s), p10))

\* a faulty variant: the decimals beyond the last one are cut off
Scaled_truncating(x, digits) ==
  ShiftR(ShiftL(TimesPow10(x.m, digits), Max(x.e, 0)), Max(0 - x.e, 0))

\* |x| * 10^digits rounded to an integer (a half goes to the even one), for
\* a finite x and -4 <= digits <= 8
Scaled(x, digits) ==
  ScaledDown(ShiftL(TimesPow10(x.m, Max(digits, 0)), Max(x.e, 0)), Max(0 - x.e, 0),
             10^Max(0 - digits, 0))

SignText(x) == IF x.s = 1 THEN <<"-">> ELSE <<>>
FixedText(sign, all, digits) ==
  sign \o SubSeq(all, 1, Len(all) - digits)
       \o (IF digits = 0 THEN <<>> ELSE <<".">> \o SubSeq(all, Len(all) - digits + 1, Len(all)))

\* format!("{:.digits$}", x)
Fixed(x, digits) ==
  IF IsNaN(x) THEN <<"N", "a", "N">>
  ELSE IF IsInf(x) THEN SignText(x) \o <<"i", "n", "f">>
  ELSE FixedText(SignText(x), DecDigits(Scaled(x, digits), digits + 1), digits)

\* `{}` of an integer
IntText(n) == (IF n < 0 THEN <<"-">> ELSE <<>>) \o DecDigits(NatToBig(Abs(n)), 1)

\* the f64 that rustc reads from the decimal n / 10^k, n below 2^53
ParseDecimal(n, k) == FDiv(Round(0, n, 0, FALSE), FromInt(10^k))

\* `{}` of an f64 writes the fewest decimals that read back as the same f64;
\* the model follows it up to MaxDecimals decimals
MaxDecimals == 4
RECURSIVE ShortestFrom(_, _)
ShortestFrom(x, k) ==
  IF k > MaxDecimals \/ ParseDecimal(Scaled(x, k), k) = FAbs(x) THEN k ELSE ShortestFrom(x, k + 1)
ShortestDecimals(x) == ShortestFrom(x, 0)
ShortestModelled(x) == ~IsFinite(x) \/ ShortestDecimals(x) <= MaxDecimals

\* format!("{}", x)
Shortest(x) == Fixed(x, IF IsFinite(x) THEN ShortestDecimals(x) ELSE 0)

\* `{:.p$e}` writes p + 1 significant digits and the decimal exponent E of
\* the first; the model follows it for E in -SciRange .. SciRange and
\* -4 <= p - E <= 4.  E is the least exponent at which |x| / 10^E rounds to
\* no more than p + 1 digits.
SciRange == 4
SciDigits(x, p, E) == DecDigits(Scaled(x, p - E), 0)
RECURSIVE SciFrom(_, _, _)
SciFrom(x, p, E) ==
  IF E > SciRange \/ p - E < 0 - 4 \/ Len(SciDigits(x, p, E)) <= p + 1 THEN E
  ELSE SciFrom(x, p, E + 1)
SciExponent(x, p) == SciFrom(x, p, Max(0 - SciRange, p - 4))
SciFound(x, p, E) == E <= SciRange /\ p - E >= 0 - 4 /\ Len(SciDigits(x, p, E)) = p + 1
SciModelled(x, p) == ~IsFinite(x) \/ IsZero(x) \/ SciFound(x, p, SciExponent(x, p))

\* a mantissa d.ddd from its digits, then e or E and the exponent
SciText(sign, digits, kind, E) ==
  sign \o <<digits[1]>> \o (IF Len(digits) > 1 THEN <<".">> \o Tail(digits) ELSE <<>>)
       \o <<kind>> \o IntText(E)
SciAt(x, p, kind, E) == SciText(SignText(x), SciDigits(x, p, E), kind, E)

\* format!("{:.p$e}", x) and format!("{:.p$E}", x), kind the letter
Sci(x, p, kind) ==
  IF ~IsFinite(x) THEN Fixed(x, 0)
  ELSE IF IsZero(x) THEN SciText(SignText(x), [i \in 1..(p + 1) |-> "0"], kind, 0)
  ELSE SciAt(x, p, kind, SciExponent(x, p))

\* the first and the last digit that is not 0
FirstNonZero(ds) == CHOOSE i \in 1..Len(ds) : ds[i] # "0" /\ \A j \in 1..(i - 1) : ds[j] = "0"
LastNonZero(ds) == CHOOSE i \in 1..Len(ds) : ds[i] # "0" /\ \A j \in (i + 1)..Len(ds) : ds[j] = "0"

\* the digits ds of a number with k decimals, from the first to the last
\* that is not 0, as a mantissa and an exponent
SciTrimmed(sign, ds, first, last, k, kind) ==
  SciText(sign, SubSeq(ds, first, last), kind, Len(ds) - k - first)
SciOfDigits(sign, ds, k, kind) ==
  SciTrimmed(sign, ds, FirstNonZero(ds), LastNonZero(ds), k, kind)
SciOfDecimals(x, k, kind) == SciOfDigits(SignText(x), DecDigits(Scaled(x, k), k + 1), k, kind)

\* format!("{:e}", x) and format!("{:E}", x): the digits of `{}`, written
\* as a mantissa and an exponent
SciShortest(x, kind) ==
  IF ~IsFinite(x) THEN Fixed(x, 0)
  ELSE IF IsZero(x) THEN SciText(SignText(x), <<"0">>, kind, 0)
  ELSE SciOfDecimals(x, ShortestDecimals(x), kind)

(***************************************************************************)
(* Quantity<T,L,M,I,TEMP>: d is the 5-tuple of the type's const generics   *)
(* <<T, L, M, I, TEMP>> and v is value_si.  An expression the compiler     *)
(* rejects (operands of different types, a panic in div_evenly while the   *)
(* result type is resolved) is the value Rejected, with ok = FALSE.        *)
(***************************************************************************)
Dims == 1..5
Unitless == <<0, 0, 0, 0, 0>>

from_si(d, val) == [ok |-> TRUE, d |-> d, v |-> val]
as_si(q) == q.v
Rejected == [ok |-> FALSE, d |-> Unitless, v |-> NaN]

\* Rust's `/` and `%` on isize truncate toward zero
TruncDiv(n, m) == IF (n >= 0) = (m > 0) THEN Abs(n) \div Abs(m) ELSE 0 - (Abs(n) \div Abs(m))
TruncRem(n, m) == n - m * TruncDiv(n, m)

\* a div_evenly without the remainder test
div_truncating(num, den) ==
  IF ~IsI32(den) \/ den.lo = 0 THEN [ok |-> FALSE, val |-> 0]
  ELSE [ok |-> TRUE, val |-> TruncDiv(num, den.lo)]

\* div_evenly(num, den); a zero den fails the const evaluation of `%`
div_evenly(num, den) ==
  IF ~IsI32(den) THEN [ok |-> num = 0, val |-> 0]
  ELSE IF den.lo = 0 THEN [ok |-> FALSE, val |-> 0]
  ELSE IF TruncRem(num, den.lo) # 0 THEN [ok |-> FALSE, val |-> 0]
  ELSE [ok |-> TRUE, val |-> TruncDiv(num, den.lo)]

\* {P*T}, ... : the model holds the products of an i32 P, and 0 for any P
DimsFit(d, P) == IsI32(P) \/ d = Unitless
ScaleDims(d, P) == [i \in Dims |-> IF d[i] = 0 THEN 0 ELSE P.lo * d[i]]

\* faulty variants: an addition that accepts any two operands, and products
\* and quotients that keep one operand's dimension vector
add_any(a, b) == from_si(a.d, FAdd(a.v, b.v))
mul_keeping_dims(a, b) == from_si(a.d, FMul(a.v, b.v))
div_keeping_dims(a, b) == from_si(a.d, FDiv(a.v, b.v))
f64_div_keeping_dims(lhs, b) == from_si(b.d, FDiv(lhs, b.v))

add(a, b) == IF a.d = b.d THEN from_si(a.d, FAdd(a.v, b.v)) ELSE Rejected
sub(a, b) == IF a.d = b.d THEN from_si(a.d, FSub(a.v, b.v)) ELSE Rejected
neg(a) == from_si(a.d, FNeg(a.v))
mul(a, b) == from_si([i \in Dims |-> a.d[i] + b.d[i]], FMul(a.v, b.v))
div(a, b) == from_si([i \in Dims |-> a.d[i] - b.d[i]], FDiv(a.v, b.v))
\* a faulty variant: a product with a number whose vector looks at the number
mul_f64_by_value(a, rhs) == from_si(IF IsZero(rhs) THEN Unitless ELSE a.d, FMul(a.v, rhs))
mul_f64(a, rhs) == from_si(a.d, FMul(a.v, rhs))
div_f64(a, rhs) == from_si(a.d, FDiv(a.v, rhs))
f64_mul(lhs, b) == from_si(b.d, FMul(lhs, b.v))
f64_div(lhs, b) == from_si([i \in Dims |-> 0 - b.d[i]], FDiv(lhs, b.v))

pow(a, P) == from_si(ScaleDims(a.d, P), powi(a.v, as_i32(P)))

\* root::<R>: the results libm allows, or Rejected
root(a, R) ==
  IF \E i \in Dims : ~div_evenly(a.d[i], R).ok THEN {Rejected}
  ELSE {from_si([i \in Dims |-> div_evenly(a.d[i], R).val], c) : c \in powf_inv(a.v, R)}

\* From<f64> for Unitless and From<Unitless> for f64
from_f64(value) == from_si(Unitless, value)
into_f64(q) == q.v

\* a faulty variant: a conversion to a number defined for every quantity
f64_from_any(value) == [ok |-> value.ok, x |-> into_f64(value)]

\* From<Unitless> for f64 and the four impls between f64 and Unitless exist
\* for Quantity<0,0,0,0,0> alone: on another type the expression does not
\* compile
NotANumber == [ok |-> FALSE, x |-> NaN]
f64_from(value) ==
  IF value.ok /\ value.d = Unitless THEN [ok |-> TRUE, x |-> into_f64(value)] ELSE NotANumber
Unitless_add_f64(self, rhs) ==
  IF self.ok /\ self.d = Unitless THEN add(self, from_f64(rhs)) ELSE Rejected
Unitless_sub_f64(self, rhs) ==
  IF self.ok /\ self.d = Unitless THEN sub(self, from_f64(rhs)) ELSE Rejected
f64_add_Unitless(lhs, rhs) ==
  IF rhs.ok /\ rhs.d = Unitless THEN add(from_f64(lhs), rhs) ELSE Rejected
f64_sub_Unitless(lhs, rhs) ==
  IF rhs.ok /\ rhs.d = Unitless THEN sub(from_f64(lhs), rhs) ELSE Rejected

\* a faulty variant: an exponent marker that looks at the magnitude
write_unit_power_by_magnitude(power, symbol) ==
  IF power # 0
  THEN <<" ">> \o symbol \o (IF Abs(power) # 1 THEN <<"^">> \o IntText(power) ELSE <<>>)
  ELSE <<>>

write_unit_power(power, symbol) ==
  IF power # 0
  THEN <<" ">> \o symbol \o (IF power # 1 THEN <<"^">> \o IntText(power) ELSE <<>>)
  ELSE <<>>

\* a faulty variant: a suffix in the order of the type parameters
unit_suffix_in_type_order(d) ==
  write_unit_power(d[1], <<"s">>) \o write_unit_power(d[2], <<"m">>)
    \o write_unit_power(d[3], <<"k", "g">>) \o write_unit_power(d[4], <<"A">>)
    \o write_unit_power(d[5], <<"K">>)

\* the five write_unit_power! lines of fmt
unit_suffix(d) ==
  write_unit_power(d[3], <<"k", "g">>) \o write_unit_power(d[2], <<"m">>)
    \o write_unit_power(d[1], <<"s">>) \o write_unit_power(d[4], <<"A">>)
    \o write_unit_power(d[5], <<"K">>)

\* the number fmt writes: suffix is "", "e" or "E", precision is <<>> for
\* None and <<digits>> for Some(digits)
fmt_value(value, suffix, precision) ==
  IF precision # <<>>
  THEN IF suffix = "" THEN Fixed(value, precision[1]) ELSE Sci(value, precision[1], suffix)
  ELSE IF suffix = "" THEN Shortest(value) ELSE SciShortest(value, suffix)
FmtModelled(value, suffix, precision) ==
  IF precision # <<>>
  THEN suffix # "" => SciModelled(value, precision[1])
  ELSE ShortestModelled(value)

fmt_impl_with_suffix(self, suffix, precision) ==
  fmt_value(self.v, suffix, precision) \o unit_suffix(self.d)

\* the suffix each trait's impl hands to fmt_impl_with_suffix!; Debug calls
\* Display's fmt
SuffixOf(trait) == IF trait = "LowerExp" THEN "e" ELSE IF trait = "UpperExp" THEN "E" ELSE ""
fmt(self, trait, precision) == fmt_impl_with_suffix(self, SuffixOf(trait), precision)

(***************************************************************************)
(* Units.  A Quantity is the linear unit of its own dimension; an          *)
(* OffsetUnit has a base unit and a zero point of one dimension.           *)
(***************************************************************************)
\* faulty variants: a reading that multiplies by the unit, and an offset
\* reading that forgets the zero point
qty_to_val_times(self, value) == FMul(value.v, self.v)
OffsetUnit_qty_to_val_rel(self, value) == FDiv(value.v, self.unit.v)

\* impl Unit for Quantity
qty_to_val(self, value) == FDiv(value.v, self.v)
val_to_qty(self, value) == f64_mul(value, self)

OffsetUnit_new(baseunit, zero) == [unit |-> baseunit, zero |-> zero]
zero_qty(self) == self.zero

\* impl Unit for OffsetUnit
OffsetUnit_qty_to_val(self, value) == into_f64(div(sub(value, self.zero), self.unit))
OffsetUnit_val_to_qty(self, value) == add(f64_mul(value, self.unit), self.zero)

abs_qty_of(self, value) == OffsetUnit_val_to_qty(self, value)

\* impl Mul<OffsetUnit<Dimen>> for f64, the body of unit_mul_constructor_impl
f64_mul_OffsetUnit(lhs, rhs) == OffsetUnit_val_to_qty(rhs, lhs)

\* faulty variants: relative views that keep the zero point
as_rel_unit_with_zero(self) == add(self.unit, self.zero)
rel_qty_of_abs(self, value) == OffsetUnit_val_to_qty(self, value)

\* the relative view of an OffsetUnit: its base unit alone
as_rel_unit(self) == self.unit
rel_qty_of(self, value) == val_to_qty(self.unit, value)

\* dimens
Length == <<0, 1, 0, 0, 0>>
Volume == <<0, 3, 0, 0, 0>>
Mass == <<0, 0, 1, 0, 0>>
Temperature == <<0, 0, 0, 0, 1>>
Force == <<-2, 1, 1, 0, 0>>

\* units
KELVIN == from_si(Temperature, One)
RANKINE == div_f64(KELVIN, Lit(18, 10))
CELSIUS == OffsetUnit_new(KELVIN, f64_mul(Lit(27315, 100), KELVIN))
\* a faulty variant: a Fahrenheit scale whose zero is the one of CELSIUS
FAHRENHEIT_without_32 == OffsetUnit_new(RANKINE, zero_qty(CELSIUS))
FAHRENHEIT == OffsetUnit_new(RANKINE, sub(zero_qty(CELSIUS), f64_mul(FromInt(32), RANKINE)))

(***************************************************************************)
(* A client of the crate: it holds two quantities a and b, applies one     *)
(* operation to a, may take the result back with a second one, and may     *)
(* convert once more.  s1, s2 and s3 record the steps: the operation, its  *)
(* const parameter P, its unit u, the number v it was given, the quantity  *)
(* q it left, the number x it left and the text out it wrote, one          *)
(* character per element.                                                  *)
(***************************************************************************)
VARIABLES a, b, numbers, units, s1, s2, s3
vars == <<a, b, numbers, units, s1, s2, s3>>

MaxPow == 3
Powers == {Isize(n) : n \in (0 - MaxPow)..MaxPow} \cup {[hi |-> 1, lo |-> 1], [hi |-> 1, lo |-> 0]}

\* the numbers the client converts and scales by
Numbers == {Zero(0), Lit(1, 10), FromInt(100), FromInt(212)}

QuantitiesA ==
  { from_si(Length, Lit(1, 10)), from_si(Force, FromInt(-2)), from_si(Volume, FromInt(64)),
    from_si(Length, Fin(0, ShiftL(<<1>>, MantBits - 1), 0 - 60 - (MantBits - 1))),   \* 2^-60
    from_si(Unitless, Step(One, 2^22)),          \* 1 + 2^-30
    from_si(Temperature, Lit(37315, 100)) }
QuantitiesB ==
  { from_si(Length, FromInt(3)), from_si(Force, FromInt(2)), from_si(Mass, Zero(0)), RANKINE }

Idle ==
  [op |-> "none", P |-> Isize(0), u |-> "none", v |-> NaN, q |-> Rejected, x |-> NaN,
   out |-> <<>>]

\* the unit a step names
UnitNames == {"CELSIUS", "FAHRENHEIT", "new(b, a)"}
UnitOf(name) == units[name]
UnitTypeChecks(name) == name = "new(b, a)" => a.d = b.d

Fresh == s1.op = "none"
Second == s1.op # "none" /\ s2.op = "none"
Third == s2.op # "none" /\ s3.op = "none"
Last == IF s2.op # "none" THEN s2 ELSE s1
CurQ == IF Fresh THEN a ELSE Last.q
\* what the second and third steps follow
AfterArith == Second /\ s1.op \in {"add", "sub", "neg", "mul", "div", "pow"} /\ CurQ.ok
AfterValToQty ==
  Second /\ s1.op \in {"val_to_qty", "OffsetUnit_val_to_qty", "f64_mul_OffsetUnit"} /\ CurQ.ok
AfterQtyToVal(op, u) == (Second \/ Third) /\ Last.op = op /\ Last.u = u

Record(st) ==
  IF Fresh THEN s1' = st /\ UNCHANGED <<a, b, numbers, units, s2, s3>>
  ELSE IF Second THEN s2' = st /\ UNCHANGED <<a, b, numbers, units, s1, s3>>
  ELSE s3' = st /\ UNCHANGED <<a, b, numbers, units, s1, s2>>

QStep(op, q) == [Idle EXCEPT !.op = op, !.q = q]

Init ==
  /\ a \in QuantitiesA
  /\ b \in QuantitiesB
  /\ numbers = Numbers
  /\ units = [name \in UnitNames |->
                IF name = "CELSIUS" THEN CELSIUS
                ELSE IF name = "FAHRENHEIT" THEN FAHRENHEIT
                ELSE OffsetUnit_new(b, a)]
  /\ s1 = Idle /\ s2 = Idle /\ s3 = Idle

Add == Fresh /\ Record(QStep("add", add(CurQ, b)))
Sub == (Fresh \/ AfterArith) /\ Record(QStep("sub", sub(CurQ, b)))
Neg == Fresh /\ Record(QStep("neg", neg(CurQ)))
Mul == Fresh /\ Record(QStep("mul", mul(CurQ, b)))
Div == (Fresh \/ AfterArith) /\ Record(QStep("div", div(CurQ, b)))
MulF64 == Fresh /\ \E v \in numbers : Record([QStep("mul_f64", mul_f64(CurQ, v)) EXCEPT !.v = v])
DivF64 == Fresh /\ \E v \in numbers : Record([QStep("div_f64", div_f64(CurQ, v)) EXCEPT !.v = v])
F64Mul == Fresh /\ \E v \in numbers : Record([QStep("f64_mul", f64_mul(v, CurQ)) EXCEPT !.v = v])
F64Div == Fresh /\ \E v \in numbers : Record([QStep("f64_div", f64_div(v, CurQ)) EXCEPT !.v = v])

Pow ==
  /\ Fresh
  /\ \E P \in Powers :
       /\ DimsFit(CurQ.d, P)
       /\ Record([QStep("pow", pow(CurQ, P)) EXCEPT !.P = P])

Root ==
  /\ Fresh \/ AfterArith
  /\ \E R \in Powers :
       /\ PowfModelled(CurQ.v, R)
            \/ \E i \in Dims : ~div_evenly(CurQ.d[i], R).ok
       /\ \E q \in root(CurQ, R) : Record([QStep("root", q) EXCEPT !.P = R])

\* v * b, through b as the unit of its dimension
ValToQty ==
  /\ Fresh \/ AfterQtyToVal("qty_to_val", "b")
  /\ \E v \in (IF Fresh THEN numbers ELSE {Last.x}) :
       Record([QStep("val_to_qty", val_to_qty(b, v)) EXCEPT !.u = "b", !.v = v])

\* Quantity::as_unit(b)
QtyToVal ==
  /\ Fresh \/ AfterValToQty
  /\ CurQ.d = b.d
  /\ Record([QStep("qty_to_val", CurQ) EXCEPT !.u = "b", !.x = qty_to_val(b, CurQ)])

OffsetValToQty ==
  /\ \E name \in UnitNames, v \in (IF Fresh THEN numbers ELSE {Last.x}) :
       /\ Fresh \/ AfterQtyToVal("OffsetUnit_qty_to_val", name)
       /\ UnitTypeChecks(name)
       /\ Record([QStep("OffsetUnit_val_to_qty", OffsetUnit_val_to_qty(UnitOf(name), v))
                    EXCEPT !.u = name, !.v = v])

\* Quantity::as_unit(u) for an OffsetUnit u
OffsetQtyToVal ==
  /\ Fresh \/ AfterValToQty
  /\ \E name \in UnitNames :
       /\ UnitTypeChecks(name) /\ CurQ.d = UnitOf(name).unit.d
       /\ Record([QStep("OffsetUnit_qty_to_val", CurQ)
                    EXCEPT !.u = name, !.x = OffsetUnit_qty_to_val(UnitOf(name), CurQ)])

AbsQtyOf ==
  /\ Fresh
  /\ \E name \in UnitNames, v \in numbers :
       /\ UnitTypeChecks(name)
       /\ Record([QStep("abs_qty_of", abs_qty_of(UnitOf(name), v)) EXCEPT !.u = name, !.v = v])

\* v * u for an OffsetUnit u
F64MulOffsetUnit ==
  /\ Fresh
  /\ \E name \in UnitNames, v \in numbers :
       /\ UnitTypeChecks(name)
       /\ Record([QStep("f64_mul_OffsetUnit", f64_mul_OffsetUnit(v, UnitOf(name)))
                    EXCEPT !.u = name, !.v = v])

Next ==
  \/ Add \/ Sub \/ Neg \/ Mul \/ Div
  \/ MulF64 \/ DivF64 \/ F64Mul \/ F64Div
  \/ Pow \/ Root
  \/ ValToQty \/ QtyToVal \/ OffsetValToQty \/ OffsetQtyToVal
  \/ AbsQtyOf \/ F64MulOffsetUnit

Spec == Init /\ [][Next]_vars

(***************************************************************************)
(* Properties.  In1 is what the first step works on and In2 what the       *)
(* second works on.  Values are compared as f64 (FEq is `==`), or within   *)
(* Tolerance of a scale.                                                    *)
(***************************************************************************)
In1 == a
In2 == s1.q

\* 2^-40
Tolerance == Fin(0, ShiftL(<<1>>, MantBits - 1), 0 - 40 - (MantBits - 1))

IsNormal(x) == IsFinite(x) /\ BitLen(x.m) = MantBits
FMaxAbs(x, y) == IF FLt(FAbs(x), FAbs(y)) THEN FAbs(y) ELSE FAbs(x)

\* |x - y| <= Tolerance * |scale|
Within(x, y, scale) ==
  /\ IsFinite(x) /\ IsFinite(y)
  /\ FLe(FAbs(FSub(x, y)), FMul(Tolerance, FAbs(scale)))

\* equal within Tolerance of the larger one, or the same infinity
Close(x, y) ==
  \/ Within(x, y, FMaxAbs(x, y))
  \/ IsInf(x) /\ IsInf(y) /\ x.s = y.s

\* C1: a * b is defined for every pair of quantities: its dimension vector
\* is the element-wise sum of the operands' vectors over all five
\* components and its stored value is the f64 product of the stored values;
\* a quantity times a raw number, on either side, keeps the quantity's
\* vector and multiplies the stored value by the number.
C1_MulAddsDimensions ==
  /\ s1.op = "mul" =>
       /\ s1.q.ok
       /\ \A i \in Dims : s1.q.d[i] = a.d[i] + b.d[i]
       /\ s1.q.v = FMul(a.v, b.v)
  /\ s1.op = "mul_f64" => s1.q.ok /\ s1.q.d = a.d /\ s1.q.v = FMul(a.v, s1.v)
  /\ s1.op = "f64_mul" => s1.q.ok /\ s1.q.d = a.d /\ s1.q.v = FMul(s1.v, a.v)

\* a Force times a Length: <<-2,1,1,0,0>> + <<0,1,0,0,0>>, -2.0 * 3.0
C1_Witness ==
  /\ s1.op = "mul" /\ a.d = Force /\ b.d = Length
  /\ s1.q.d = <<-2, 2, 1, 0, 0>> /\ s1.q.v = FromInt(-6)

C3_Original ==
  /\ s1.op \in {"add", "sub"} => (s1.q.ok <=> a.d = b.d) /\ (s1.q.ok => s1.q.d = a.d)
  /\ s1.op = "add" /\ s1.q.ok => FEq(s1.q.v, add(b, a).v)
  /\ s1.op = "add" /\ s2.op = "sub" => s2.q.d = a.d /\ Close(s2.q.v, a.v)

\* C3, amended: a + b and a - b exist only for operands of one dimension
\* vector and have that vector, a + b == b + a, and (a + b) - b is a within
\* Tolerance of the larger of |a| and |b| (the sum is rounded to the
\* precision of the larger operand, so a small a is lost in a large b).
C3_AddSubSameDimension ==
  /\ s1.op \in {"add", "sub"} => (s1.q.ok <=> a.d = b.d) /\ (s1.q.ok => s1.q.d = a.d)
  /\ s1.op = "add" /\ s1.q.ok => FEq(s1.q.v, add(b, a).v)
  /\ s1.op = "add" /\ s2.op = "sub" =>
       /\ s2.q.ok /\ s2.q.d = a.d
       /\ Within(s2.q.v, a.v, FMaxAbs(a.v, b.v))

\* (2^-60 + 3.0) - 3.0 is 0.0, and (0.1 + 3.0) - 3.0 is 0.10000000000000009
C3_Witness ==
  /\ s1.op = "add" /\ s2.op = "sub" /\ b.v = FromInt(3)
  /\ \/ a.v = Lit(1, 10) /\ s2.q.v = Step(a.v, 6)
     \/ ~IsZero(a.v) /\ a.v # Lit(1, 10) /\ IsZero(s2.q.v)

\* C4, as stated (with the spec's tolerance): (a * b) / b has a's dimension
\* vector and a's stored value within Tolerance, for any dimensions and any
\* values.
C4_Original ==
  s1.op = "mul" /\ s2.op = "div" => s2.q.ok /\ s2.q.d = a.d /\ Close(s2.q.v, a.v)

\* C4, amended: (a * b) / b has exactly a's dimension vector; its stored
\* value is a's within Tolerance when b is not zero and a * b is a normal
\* f64 or zero, and is NaN when b is zero.
C4_MulThenDiv ==
  s1.op = "mul" /\ s2.op = "div" =>
    /\ s2.q.ok /\ s2.q.d = a.d
    /\ IsZero(b.v) => IsNaN(s2.q.v)
    /\ ~IsZero(b.v) /\ (IsNormal(s1.q.v) \/ IsZero(s1.q.v)) => Close(s2.q.v, a.v)

\* (0.1 * 3.0) / 3.0 is 0.10000000000000002
C4_Witness ==
  /\ s1.op = "mul" /\ s2.op = "div"
  /\ a.v = Lit(1, 10) /\ b.v = FromInt(3)
  /\ s2.q.d = Length /\ s2.q.v = Step(a.v, 1)

\* whether the integer c is a multiple of the isize R, R not 0
Divides(R, c) ==
  IF IsI32(R) THEN R.lo # 0 /\ \E k \in (0 - Abs(c))..Abs(c) : k * R.lo = c ELSE c = 0

\* What root::<R> left in out for the quantity in: rejected unless R divides
\* every component (always for R = 0); else each component times R is the one of in, and the
\* value is the R-th root of in's value: raised to R it is in's value within
\* Tolerance (NaN for a negative value, which has no f64 power 1/R unless
\* 1/R is an integer).
RootOf(in, R, out) ==
  /\ out.ok <=> \A i \in Dims : Divides(R, in.d[i])
  /\ out.ok =>
       /\ \A i \in Dims : IF IsI32(R) THEN out.d[i] * R.lo = in.d[i] ELSE out.d[i] = 0
       /\ IF IsNaN(in.v) THEN IsNaN(out.v)
          ELSE IF IsZero(in.v) \/ IsInf(in.v) THEN
                 out.v = IF IsI32(R) /\ R.lo \in {1, -1} THEN powi(in.v, R.lo)
                         ELSE IF IsI32(R) /\ R.lo < 0 THEN FDiv(One, FAbs(in.v))
                         ELSE FAbs(in.v)
          ELSE IF ~IsI32(R) THEN Close(out.v, One)
          ELSE IF in.v.s = 1 /\ R.lo \notin {1, -1} /\ ~IsZero(in.v) THEN IsNaN(out.v)
          ELSE Close(powi(out.v, R.lo), in.v)

\* C5: root::<R> is accepted only when R divides each of the five
\* components, and is rejected otherwise rather than truncate an exponent;
\* when accepted each result component c' has c' * R == c, negative
\* components and negative R included, and the stored value is
\* value^(1/R).
C5_RootDividesEvenly ==
  /\ s1.op = "root" => RootOf(In1, s1.P, s1.q)
  /\ s2.op = "root" => RootOf(In2, s2.P, s2.q)

\* the root::<-2> of (-2.0 Force) * (2.0 Force): <<-4,2,2,0,0>> gives
\* <<2,-1,-1,0,0>>
C5_Witness ==
  /\ s1.op = "mul" /\ s1.q.d = <<-4, 2, 2, 0, 0>>
  /\ s2.op = "root" /\ s2.P = Isize(-2) /\ s2.q.ok /\ s2.q.d = <<2, -1, -1, 0, 0>>

\* x^n for a finite x and an i32 n: the exact power of |n| rounded to f64,
\* and its reciprocal for a negative n
PowRef(x, n) ==
  LET k == Abs(n)
      p == Round(IF x.s = 1 /\ k % 2 = 1 THEN 1 ELSE 0, BigPow(x.m, k), x.e * k, FALSE)
  IN  IF n >= 0 THEN p ELSE FDiv(One, p)

\* each component of out is the one of d times P
PowDims(d, P, out) ==
  \A i \in Dims : IF d[i] = 0 THEN out[i] = 0 ELSE IsI32(P) /\ out[i] = P.lo * d[i]

\* out is x^P within Tolerance.  For a P of 2^32 or more the power is only
\* bounded: x^P >= 1 + P * (x - 1) >= 5 when x >= 1 + 2^-30.
PowValue(x, P, out) ==
  IF IsI32(P) THEN Close(out, PowRef(x, P.lo))
  ELSE FLe(Step(One, 2^22), x) => FLe(FromInt(5), out)

\* C6, as stated: pow::<P> on a quantity with vector d and stored value x
\* returns the vector d with each component multiplied by P and the stored
\* value x^P, for every integer P the const generic admits.
C6_PowScalesDimensions ==
  s1.op = "pow" =>
    /\ s1.q.ok
    /\ PowDims(a.d, s1.P, s1.q.d)
    /\ IsFinite(a.v) => PowValue(a.v, s1.P, s1.q.v)

\* C6 for the P that `P as i32` leaves alone
C6_WithinI32 ==
  s1.op = "pow" /\ IsI32(s1.P) =>
    /\ s1.q.ok
    /\ PowDims(a.d, s1.P, s1.q.d)
    /\ IsFinite(a.v) => PowValue(a.v, s1.P, s1.q.v)

\* pow::<4294967297> of the Unitless 1 + 2^-30 is the quantity itself: the
\* exponent was narrowed to 1
C6_Witness ==
  /\ s1.op = "pow" /\ s1.P = [hi |-> 1, lo |-> 1]
  /\ a.d = Unitless /\ a.v = Step(One, 2^22)
  /\ s1.q.v = a.v

\* a positive p
Positive(P) == ~IsI32(P) \/ P.lo > 0

\* C7, as stated (with the spec's tolerance): for every quantity a and
\* every positive integer p, a.pow(p) has a's vector scaled by p, and
\* a.pow(p).root(p) is accepted and is a: a's vector, a's stored value.
C7_PowThenRoot ==
  /\ s1.op = "pow" /\ Positive(s1.P) => PowDims(a.d, s1.P, s1.q.d)
  /\ s1.op = "pow" /\ s2.op = "root" /\ s2.P = s1.P /\ Positive(s1.P) =>
       /\ s2.q.ok /\ s2.q.d = a.d
       /\ Close(s2.q.v, a.v)

\* C7 for a p that `P as i32` leaves alone and a value that is not
\* negative; a negative value comes back as its absolute value for an even
\* p and as NaN for an odd p other than 1.
C7_WithinI32 ==
  /\ s1.op = "pow" /\ Positive(s1.P) => PowDims(a.d, s1.P, s1.q.d)
  /\ s1.op = "pow" /\ s2.op = "root" /\ s2.P = s1.P /\ Positive(s1.P) /\ IsI32(s1.P) =>
       /\ s2.q.ok /\ s2.q.d = a.d
       /\ IF a.v.s = 0 \/ s1.P.lo = 1 THEN Close(s2.q.v, a.v)
          ELSE IF s1.P.lo % 2 = 0 THEN Close(s2.q.v, FAbs(a.v))
          ELSE IsNaN(s2.q.v)

\* pow::<4294967297> then root::<4294967297> of the Unitless 1 + 2^-30 is
\* within one place of 1.0
C7_Witness ==
  /\ s1.op = "pow" /\ s1.P = [hi |-> 1, lo |-> 1]
  /\ s2.op = "root" /\ s2.P = s1.P /\ s2.q.ok
  /\ a.v = Step(One, 2^22) /\ s2.q.v \in Around(One, 1)

\* C8, as stated: for a linear unit u (here b) and a number v,
\* qty_to_val(u, val_to_qty(u, v)) == v and
\* val_to_qty(u, qty_to_val(u, val_to_qty(u, v))) == val_to_qty(u, v).
C8_Original ==
  /\ s1.op = "val_to_qty" /\ s2.op = "qty_to_val" => FEq(s2.x, s1.v)
  /\ s1.op = "val_to_qty" /\ s2.op = "qty_to_val" /\ s3.op = "val_to_qty" =>
       s3.q.d = s1.q.d /\ FEq(s3.q.v, s1.q.v)

\* C8, amended: a quantity u is a unit of its own dimension with
\* val_to_qty(v) = v * u and qty_to_val(q) = q / u on the stored values;
\* when u is not zero and v * u is a normal f64 or zero,
\* qty_to_val(u, val_to_qty(u, v)) is v within Tolerance and converting
\* that back is val_to_qty(u, v) within Tolerance; when u is zero both are
\* NaN.
C8_LinearRoundTrip ==
  /\ s1.op = "val_to_qty" => s1.q.ok /\ s1.q.d = b.d /\ s1.q.v = FMul(s1.v, b.v)
  /\ s1.op = "qty_to_val" => s1.x = FDiv(In1.v, b.v)
  /\ s2.op = "qty_to_val" => s2.x = FDiv(In2.v, b.v)
  /\ s1.op = "val_to_qty" /\ s2.op = "qty_to_val" =>
       IF IsZero(b.v) THEN IsNaN(s2.x)
       ELSE IsNormal(s1.q.v) \/ IsZero(s1.q.v) => Close(s2.x, s1.v)
  /\ s1.op = "val_to_qty" /\ s2.op = "qty_to_val" /\ s3.op = "val_to_qty" =>
       /\ s3.q.ok /\ s3.q.d = s1.q.d
       /\ IF IsZero(b.v) THEN IsNaN(s3.q.v)
          ELSE IsNormal(s1.q.v) \/ IsZero(s1.q.v) => Close(s3.q.v, s1.q.v)

\* 0.1 through a Length of 3.0 and back is 0.10000000000000002
C8_Witness ==
  /\ s1.op = "val_to_qty" /\ s2.op = "qty_to_val" /\ s3.op = "val_to_qty"
  /\ s1.v = Lit(1, 10) /\ b.d = Length
  /\ s2.x = Step(s1.v, 1)

OffsetValToQtyOps == {"OffsetUnit_val_to_qty", "abs_qty_of", "f64_mul_OffsetUnit"}

\* what a conversion of the number st.v through the OffsetUnit st.u left:
\* v * unit + zero
OffsetValToQtyOf(st) ==
  st.op \in OffsetValToQtyOps =>
    /\ st.q.ok /\ st.q.d = UnitOf(st.u).unit.d
    /\ st.q.v = FAdd(FMul(st.v, UnitOf(st.u).unit.v), UnitOf(st.u).zero.v)

\* what a reading of the quantity in through the OffsetUnit st.u left:
\* (in - zero) / unit
OffsetQtyToValOf(st, in) ==
  st.op = "OffsetUnit_qty_to_val" =>
    st.x = FDiv(FSub(in.v, UnitOf(st.u).zero.v), UnitOf(st.u).unit.v)

\* a number through an OffsetUnit and back through the same one
ValThenBack ==
  /\ s1.op \in {"OffsetUnit_val_to_qty", "f64_mul_OffsetUnit"}
  /\ s2.op = "OffsetUnit_qty_to_val" /\ s2.u = s1.u

\* a quantity through an OffsetUnit and back through the same one
QtyThenBack ==
  s1.op = "OffsetUnit_qty_to_val" /\ s2.op = "OffsetUnit_val_to_qty" /\ s2.u = s1.u

\* C9, as stated: qty_to_val(q) = (q - zero)/unit, val_to_qty(v) =
\* v*unit + zero, `v * offset_unit` and abs_qty_of(v) are val_to_qty(v), and
\* qty_to_val(val_to_qty(v)) == v, val_to_qty(qty_to_val(q)) == q.
C9_Original ==
  /\ OffsetValToQtyOf(s1) /\ OffsetValToQtyOf(s2) /\ OffsetValToQtyOf(s3)
  /\ OffsetQtyToValOf(s1, In1) /\ OffsetQtyToValOf(s2, In2)
  /\ ValThenBack => FEq(s2.x, s1.v)
  /\ QtyThenBack => s2.q.d = a.d /\ FEq(s2.q.v, a.v)

\* C9, amended: for an OffsetUnit of base unit `unit` and zero point `zero`
\* of one dimension, qty_to_val(q) is the f64 (q - zero)/unit,
\* val_to_qty(v) is the f64 v*unit + zero, and `v * offset_unit` and
\* abs_qty_of(v) are val_to_qty(v); for a finite unit that is not zero,
\* qty_to_val(val_to_qty(v)) is v within Tolerance of the larger of |v| and
\* |zero/unit|, and val_to_qty(qty_to_val(q)) has q's dimension and is q
\* within Tolerance of the larger of |q| and |zero|.
C9_OffsetUnitInverse ==
  /\ OffsetValToQtyOf(s1) /\ OffsetValToQtyOf(s2) /\ OffsetValToQtyOf(s3)
  /\ OffsetQtyToValOf(s1, In1) /\ OffsetQtyToValOf(s2, In2)
  /\ ValThenBack /\ ~IsZero(UnitOf(s1.u).unit.v) =>
       Within(s2.x, s1.v,
              FMaxAbs(s1.v, FDiv(UnitOf(s1.u).zero.v, UnitOf(s1.u).unit.v)))
  /\ QtyThenBack /\ ~IsZero(UnitOf(s1.u).unit.v) =>
       /\ s2.q.ok /\ s2.q.d = a.d
       /\ Within(s2.q.v, a.v, FMaxAbs(a.v, UnitOf(s1.u).zero.v))

\* 0.1 CELSIUS read in CELSIUS is 0.10000000000002274
C9_Witness ==
  /\ ValThenBack /\ s1.u = "CELSIUS" /\ s1.v = Lit(1, 10)
  /\ s1.q.v = FAdd(Lit(1, 10), Lit(27315, 100))
  /\ ~FEq(s2.x, s1.v) /\ FLt(s1.v, s2.x)

\* a number v taken in the unit from and read in the unit to
Converted(v, from, to) ==
  /\ s1.op \in {"OffsetUnit_val_to_qty", "f64_mul_OffsetUnit"}
  /\ s1.u = from /\ s1.v = v
  /\ s2.op = "OffsetUnit_qty_to_val" /\ s2.u = to

\* CELSIUS is 1 K from 273.15 K, FAHRENHEIT is KELVIN/1.8 from that zero
\* less 32 RANKINE
StandardScales ==
  /\ units["CELSIUS"].unit = from_si(Temperature, One)
  /\ units["CELSIUS"].zero = from_si(Temperature, Lit(27315, 100))
  /\ units["FAHRENHEIT"].unit = from_si(Temperature, FDiv(One, Lit(18, 10)))
  /\ units["FAHRENHEIT"].zero =
       from_si(Temperature, FSub(Lit(27315, 100), FMul(FromInt(32), FDiv(One, Lit(18, 10)))))

\* C10, as stated: 0 CELSIUS read in FAHRENHEIT yields 32, 100 CELSIUS
\* yields 212, and 212 FAHRENHEIT read in CELSIUS yields 100.
C10_Original ==
  /\ Converted(Zero(0), "CELSIUS", "FAHRENHEIT") => StandardScales /\ FEq(s2.x, FromInt(32))
  /\ Converted(FromInt(100), "CELSIUS", "FAHRENHEIT") => StandardScales /\ FEq(s2.x, FromInt(212))
  /\ Converted(FromInt(212), "FAHRENHEIT", "CELSIUS") => StandardScales /\ FEq(s2.x, FromInt(100))

\* C10, amended: with these scales 0 CELSIUS read in FAHRENHEIT yields
\* 31.999999999999986 (four f64 below 32), 100 CELSIUS yields
\* 211.99999999999997 (one f64 below 212), both within Tolerance of the
\* standard value, and 212 FAHRENHEIT read in CELSIUS yields exactly 100.
C10_StandardTemperatures ==
  /\ Converted(Zero(0), "CELSIUS", "FAHRENHEIT") =>
       StandardScales /\ s2.x = Step(FromInt(32), -4) /\ Close(s2.x, FromInt(32))
  /\ Converted(FromInt(100), "CELSIUS", "FAHRENHEIT") =>
       StandardScales /\ s2.x = Step(FromInt(212), -1) /\ Close(s2.x, FromInt(212))
  /\ Converted(FromInt(212), "FAHRENHEIT", "CELSIUS") =>
       StandardScales /\ s2.x = FromInt(100)

\* 0.0 * CELSIUS is 273.15 K, and as_unit(FAHRENHEIT) of it is within
\* Tolerance of 32 and is not 32
C10_Witness ==
  /\ Converted(Zero(0), "CELSIUS", "FAHRENHEIT")
  /\ s1.op = "f64_mul_OffsetUnit" /\ s1.q.v = Lit(27315, 100)
  /\ Close(s2.x, FromInt(32)) /\ ~FEq(s2.x, FromInt(32))

(***************************************************************************)
(* A client working with temperatures, as main does: it takes a quantity   *)
(* (a itself, v * U or U.rel_qty_of(v)), may add or subtract a second one  *)
(* built the same way, and reads the result with as_unit(U) or             *)
(* as_unit(U.as_rel_unit()).                                               *)
(***************************************************************************)
Scales == {"CELSIUS", "FAHRENHEIT"}
TempNumbers == {Zero(0), FromInt(5), FromInt(10), FromInt(27), FromInt(32), FromInt(212)}
TempQuantities == {from_si(Temperature, FromInt(10)), from_si(Temperature, Lit(27315, 100))}

TempInit ==
  /\ a \in TempQuantities
  /\ b = KELVIN
  /\ numbers = TempNumbers
  /\ units = [name \in UnitNames |->
                IF name = "CELSIUS" THEN CELSIUS
                ELSE IF name = "FAHRENHEIT" THEN FAHRENHEIT
                ELSE OffsetUnit_new(b, a)]
  /\ s1 = Idle /\ s2 = Idle /\ s3 = Idle

\* v * U
AbsQty ==
  /\ Fresh
  /\ \E name \in Scales, v \in numbers :
       Record([QStep("abs", f64_mul_OffsetUnit(v, UnitOf(name))) EXCEPT !.u = name, !.v = v])

\* U.rel_qty_of(v)
RelQty ==
  /\ Fresh
  /\ \E name \in Scales, v \in numbers :
       Record([QStep("rel", rel_qty_of(UnitOf(name), v)) EXCEPT !.u = name, !.v = v])

StartsTemp == Fresh \/ (Second /\ s1.op \in {"abs", "rel"})

\* t + v * U and t - v * U
AddAbs ==
  /\ StartsTemp
  /\ \E name \in Scales, v \in {FromInt(5), FromInt(32)} :
       Record([QStep("add_abs", add(CurQ, f64_mul_OffsetUnit(v, UnitOf(name))))
                 EXCEPT !.u = name, !.v = v])
SubAbs ==
  /\ StartsTemp
  /\ \E name \in Scales, v \in {FromInt(5), FromInt(32)} :
       Record([QStep("sub_abs", sub(CurQ, f64_mul_OffsetUnit(v, UnitOf(name))))
                 EXCEPT !.u = name, !.v = v])

\* t + U.rel_qty_of(v)
AddRel ==
  /\ StartsTemp
  /\ \E name \in Scales, v \in {FromInt(5), FromInt(27)} :
       Record([QStep("add_rel", add(CurQ, rel_qty_of(UnitOf(name), v)))
                 EXCEPT !.u = name, !.v = v])

Readable == Fresh \/ ((Second \/ Third) /\ Last.op \notin {"as_unit", "as_unit_rel"})

\* t.as_unit(U)
ReadAbs ==
  /\ Readable
  /\ \E name \in Scales :
       Record([QStep("as_unit", CurQ)
                 EXCEPT !.u = name, !.x = OffsetUnit_qty_to_val(UnitOf(name), CurQ)])

\* t.as_unit(U.as_rel_unit())
ReadRel ==
  /\ Readable
  /\ \E name \in Scales :
       Record([QStep("as_unit_rel", CurQ)
                 EXCEPT !.u = name, !.x = qty_to_val(as_rel_unit(UnitOf(name)), CurQ)])

TempNext == AbsQty \/ RelQty \/ AddAbs \/ SubAbs \/ AddRel \/ ReadAbs \/ ReadRel

SpecTemp == TempInit /\ [][TempNext]_vars

\* what the i-th step worked on
In3 == s2.q

\* a reading through the relative view of st.u is in / unit
RelReadingOf(st, in) ==
  st.op = "as_unit_rel" => st.x = FDiv(in.v, UnitOf(st.u).unit.v)

\* C11: the relative view of an offset unit converts with the base unit
\* alone: d.as_unit(U.as_rel_unit()) is d / U.unit whatever U.zero is, and
\* U.rel_qty_of(v) is v * U.unit; 10 K reads 18 under FAHRENHEIT's relative
\* view, and 212 FAHRENHEIT - 32 FAHRENHEIT reads 100 under CELSIUS's.
C11_RelativeView ==
  /\ RelReadingOf(s1, In1) /\ RelReadingOf(s2, In2) /\ RelReadingOf(s3, In3)
  /\ s1.op = "rel" =>
       s1.q.ok /\ s1.q.d = Temperature /\ s1.q.v = FMul(s1.v, UnitOf(s1.u).unit.v)
  /\ s1.op = "as_unit_rel" /\ s1.u = "FAHRENHEIT" /\ a.v = FromInt(10) => s1.x = FromInt(18)
  /\ /\ s1.op = "abs" /\ s1.u = "FAHRENHEIT" /\ s1.v = FromInt(212)
     /\ s2.op = "sub_abs" /\ s2.u = "FAHRENHEIT" /\ s2.v = FromInt(32)
     /\ s3.op = "as_unit_rel" /\ s3.u = "CELSIUS"
     => s3.x = FromInt(100)

\* (212.0*FAHRENHEIT - 32.0*FAHRENHEIT).as_unit(CELSIUS.as_rel_unit()) is
\* 100.0, from the difference 100.0 K of two absolute temperatures
C11_Witness ==
  /\ s1.op = "abs" /\ s1.u = "FAHRENHEIT" /\ s1.v = FromInt(212)
  /\ s2.op = "sub_abs" /\ s2.u = "FAHRENHEIT" /\ s2.v = FromInt(32)
  /\ s2.q.v = FromInt(100) /\ UnitOf("CELSIUS").zero.v = Lit(27315, 100)
  /\ s3.op = "as_unit_rel" /\ s3.u = "CELSIUS" /\ s3.x = FromInt(100)

\* a quantity t, then t + U.rel_qty_of(d) or t + d * U (op), then as_unit(U)
\* of the sum: the steps are s1, s2, s3 with t = s1.q, or s1, s2 with t = a
ShiftedAt2(op) == s1.op \in {"abs", "rel"} /\ s2.op = op /\ s3.op = "as_unit" /\ s3.u = s2.u
ShiftedAt1(op) == s1.op = op /\ s2.op = "as_unit" /\ s2.u = s1.u

\* t.as_unit(U) + d, and a scale for the rounding of both sides
ShiftedReading(t, name, d) == FAdd(OffsetUnit_qty_to_val(UnitOf(name), t), d)
ShiftScale(x, name, d) ==
  FMaxAbs(FMaxAbs(x, d), FDiv(UnitOf(name).zero.v, UnitOf(name).unit.v))

\* 0.0 * CELSIUS + FAHRENHEIT.rel_qty_of(27.0), read in FAHRENHEIT
ZeroCelsiusPlus27 ==
  /\ s1.op = "abs" /\ s1.u = "CELSIUS" /\ s1.v = Zero(0)
  /\ s2.op = "add_rel" /\ s2.u = "FAHRENHEIT" /\ s2.v = FromInt(27)
  /\ s3.op = "as_unit" /\ s3.u = "FAHRENHEIT"

\* d * U is an absolute point, and t + d * U read in U is not
\* t.as_unit(U) + d
AbsoluteIsOffsetTwice ==
  /\ s1.op = "abs" /\ s1.u = "FAHRENHEIT" /\ s1.v = FromInt(5) => s1.q.v = Lit(25815, 100)
  /\ ShiftedAt2("add_abs") => ~Close(s3.x, ShiftedReading(s1.q, s2.u, s2.v))
  /\ ShiftedAt1("add_abs") => ~Close(s2.x, ShiftedReading(a, s1.u, s1.v))

\* C12, as stated: (t + U.rel_qty_of(d)).as_unit(U) == t.as_unit(U) + d
\* exactly, 0 CELSIUS + FAHRENHEIT.rel_qty_of(27) reads 59 in FAHRENHEIT,
\* 5.0 * FAHRENHEIT is 258.15 K, and t + d * U does not satisfy the
\* equation.
C12_Original ==
  /\ ShiftedAt2("add_rel") => FEq(s3.x, ShiftedReading(s1.q, s2.u, s2.v))
  /\ ShiftedAt1("add_rel") => FEq(s2.x, ShiftedReading(a, s1.u, s1.v))
  /\ ZeroCelsiusPlus27 => FEq(s3.x, FromInt(59))
  /\ AbsoluteIsOffsetTwice

\* C12, amended: (t + U.rel_qty_of(d)).as_unit(U) is t.as_unit(U) + d
\* within Tolerance of the largest of the reading, |d| and |zero/unit|;
\* 0 CELSIUS + FAHRENHEIT.rel_qty_of(27) reads 58.999999999999986 in
\* FAHRENHEIT (two f64 below 59); 5.0 * FAHRENHEIT is 258.15 K, and
\* t + d * U does not satisfy the equation.
C12_RelativeShift ==
  /\ ShiftedAt2("add_rel") =>
       Within(s3.x, ShiftedReading(s1.q, s2.u, s2.v), ShiftScale(s3.x, s2.u, s2.v))
  /\ ShiftedAt1("add_rel") =>
       Within(s2.x, ShiftedReading(a, s1.u, s1.v), ShiftScale(s2.x, s1.u, s1.v))
  /\ ZeroCelsiusPlus27 => s3.x = Step(FromInt(59), -2) /\ Close(s3.x, FromInt(59))
  /\ AbsoluteIsOffsetTwice

\* 0 CELSIUS + FAHRENHEIT.rel_qty_of(27) is 273.15 K + 15 K, read as not
\* quite 59
C12_Witness ==
  /\ ZeroCelsiusPlus27
  /\ s1.q.v = Lit(27315, 100) /\ Close(s2.q.v, Lit(28815, 100))
  /\ ~FEq(s3.x, FromInt(59)) /\ Close(s3.x, FromInt(59))

(***************************************************************************)
(* A client adding lengths, as main does: v * U, plus a second v * U, then *)
(* println!("{:.3}", total.as_unit(U)), for U a unit of length.            *)
(***************************************************************************)
CENTI == from_f64(Lit(1, 100))
METER == from_si(Length, One)
INCH == mul(f64_mul(Lit(254, 100), CENTI), METER)
FOOT == f64_mul(FromInt(12), INCH)
YARD == f64_mul(FromInt(3), FOOT)

LengthUnits == {"METER", "INCH", "FOOT", "YARD"}
LengthNumbers == {Zero(0), One, FromInt(3), FromInt(25), FromInt(100)}

LengthInit ==
  /\ a = METER
  /\ b = METER
  /\ numbers = LengthNumbers
  /\ units = [name \in LengthUnits |->
                IF name = "METER" THEN METER
                ELSE IF name = "INCH" THEN INCH
                ELSE IF name = "FOOT" THEN FOOT
                ELSE YARD]
  /\ s1 = Idle /\ s2 = Idle /\ s3 = Idle

\* v * U
LengthOf ==
  /\ Fresh
  /\ \E name \in LengthUnits, v \in numbers :
       Record([QStep("qty", f64_mul(v, UnitOf(name))) EXCEPT !.u = name, !.v = v])

\* total + v * U
AddLength ==
  /\ Second /\ s1.op = "qty"
  /\ \E name \in LengthUnits, v \in numbers :
       Record([QStep("add_qty", add(CurQ, f64_mul(v, UnitOf(name)))) EXCEPT !.u = name, !.v = v])

\* println!("{:.3}", total.as_unit(U))
PrintAsUnit ==
  /\ ~Fresh /\ (Second \/ Third) /\ Last.op \in {"qty", "add_qty"}
  /\ \E name \in LengthUnits :
       Record([QStep("print", CurQ)
                 EXCEPT !.u = name,
                        !.x = qty_to_val(UnitOf(name), CurQ),
                        !.out = Fixed(qty_to_val(UnitOf(name), CurQ), 3)])

LengthNext == LengthOf \/ AddLength \/ PrintAsUnit

SpecLength == LengthInit /\ [][LengthNext]_vars

\* 25.0*METER + 100.0*FOOT, printed in YARD
MetersPlusFeetInYards ==
  /\ s1.op = "qty" /\ s1.u = "METER" /\ s1.v = FromInt(25)
  /\ s2.op = "add_qty" /\ s2.u = "FOOT" /\ s2.v = FromInt(100)
  /\ s3.op = "print" /\ s3.u = "YARD"

\* C14, as stated: 25 METER + 100 FOOT read with as_unit(YARD), with INCH =
\* 2.54 cm, FOOT = 12 INCH and YARD = 3 FOOT, is 35.978 to 3 decimals.
C14_Original ==
  MetersPlusFeetInYards => s3.out = <<"3", "5", ".", "9", "7", "8">>

\* C14, amended: with those constants 25 METER + 100 FOOT read with
\* as_unit(YARD) is 55.48 m / 0.9144 m, 60.674 to 3 decimals.
C14_MetersPlusFeetInYards ==
  /\ UnitOf("INCH").v = FMul(FMul(Lit(254, 100), Lit(1, 100)), One)
  /\ UnitOf("FOOT").v = FMul(FromInt(12), UnitOf("INCH").v)
  /\ UnitOf("YARD").v = FMul(FromInt(3), UnitOf("FOOT").v)
  /\ MetersPlusFeetInYards =>
       /\ Close(s2.q.v, Lit(5548, 100))
       /\ s3.x = FDiv(s2.q.v, UnitOf("YARD").v)
       /\ s3.out = <<"6", "0", ".", "6", "7", "4">>

\* the sum is 55.48 m and the text written is 60.674
C14_Witness ==
  /\ MetersPlusFeetInYards
  /\ s2.q.d = Length /\ Close(s2.q.v, Lit(5548, 100))
  /\ s3.out = <<"6", "0", ".", "6", "7", "4">>


(***************************************************************************)
(* A client that formats a quantity, or a product or a quotient of two,    *)
(* with {}, {:e}, {:E} or {:?}, with a precision or without one.           *)
(***************************************************************************)
Time == <<1, 0, 0, 0, 0>>
FmtQuantitiesA ==
  { from_si(Length, Lit(1, 10)), from_si(Force, FromInt(-2)), from_si(Volume, FromInt(64)),
    from_si(Unitless, Lit(15, 10)), from_si(Temperature, Lit(37315, 100)),
    from_si(<<-3, 2, 1, -1, -1>>, Zero(0)), from_si(<<0, -2, 0, 1, 0>>, Lit(9995, 1000)) }
FmtQuantitiesB ==
  { from_si(Time, Lit(1, 2)), from_si(Length, FromInt(2)), from_si(<<0, 0, 1, 0, 2>>, FromInt(-4)) }
MaxPrecision == 3
Precisions == {<<>>} \cup {<<digits>> : digits \in 0..MaxPrecision}
Traits == {"Display", "LowerExp", "UpperExp", "Debug"}

FmtInit ==
  /\ a \in FmtQuantitiesA
  /\ b \in FmtQuantitiesB
  /\ numbers = Numbers
  /\ units = [name \in UnitNames |->
                IF name = "CELSIUS" THEN CELSIUS
                ELSE IF name = "FAHRENHEIT" THEN FAHRENHEIT
                ELSE KELVIN]
  /\ s1 = Idle /\ s2 = Idle /\ s3 = Idle

FmtMul == Fresh /\ Record(QStep("mul", mul(CurQ, b)))
FmtDiv == Fresh /\ Record(QStep("div", div(CurQ, b)))

Formattable == Fresh \/ (Second /\ s1.op \in {"mul", "div"})
\* a formatting step keeps the quantity, the precision and the text
FmtStep(trait, precision, text) ==
  [QStep(trait, CurQ) EXCEPT !.u = IF precision = <<>> THEN "None" ELSE "Some",
                             !.P = IF precision = <<>> THEN Isize(0) ELSE Isize(precision[1]),
                             !.out = text]

\* format!("{}", q), format!("{:.1e}", q), format!("{:?}", q), ...
Fmt ==
  /\ Formattable
  /\ \E trait \in Traits, precision \in Precisions :
       /\ FmtModelled(CurQ.v, SuffixOf(trait), precision)
       /\ Record(FmtStep(trait, precision, fmt(CurQ, trait, precision)))

FmtNext == FmtMul \/ FmtDiv \/ Fmt

SpecFmt == FmtInit /\ [][FmtNext]_vars

\* the formatting steps of a behaviour, and what each was given
FmtSteps == {st \in {s1, s2} : st.op \in Traits}
PrecisionOf(st) == IF st.u = "None" THEN <<>> ELSE <<st.P.lo>>

\* a text cut at its spaces
RECURSIVE Split(_)
Split(text) ==
  IF text = <<>> THEN << <<>> >>
  ELSE LET rest == Split(Tail(text))
       IN  IF Head(text) = " " THEN << <<>> >> \o rest
           ELSE << <<Head(text)>> \o rest[1] >> \o Tail(rest)

\* the symbol of each dimension of <<T, L, M, I, TEMP>>, and the order mass,
\* length, time, current, temperature
SymbolOf == << <<"s">>, <<"m">>, <<"k", "g">>, <<"A">>, <<"K">> >>
EmissionOrder == <<3, 2, 1, 4, 5>>
NonZeroInOrder(d) == SelectSeq(EmissionOrder, LAMBDA i : d[i] # 0)

\* a term of the suffix: its symbol, and its marker if it has one
MarkerAt(term) == CHOOSE i \in 1..(Len(term) + 1) : i = Len(term) + 1 \/ term[i] = "^"
TermSymbol(term) == SubSeq(term, 1, MarkerAt(term) - 1)
HasMarker(term) == MarkerAt(term) <= Len(term)
MarkerExponent(term) == SubSeq(term, MarkerAt(term) + 1, Len(term))

\* C15: the text of a formatted quantity is the number, then one term for
\* each dimension whose exponent is not zero, in the order mass, length,
\* time, current, temperature and with the symbols kg, m, s, A, K; a
\* dimensionless quantity's text is the number alone.
C15_SuffixOrder ==
  \A st \in FmtSteps :
    LET terms == Split(st.out)
        dims  == NonZeroInOrder(st.q.d)
    IN  /\ terms[1] = fmt_value(st.q.v, SuffixOf(st.op), PrecisionOf(st))
        /\ Len(terms) = 1 + Len(dims)
        /\ \A j \in 1..Len(dims) : TermSymbol(terms[j + 1]) = SymbolOf[dims[j]]
        /\ st.q.d = Unitless => st.out = terms[1]

\* a force, whose type parameters name time, length and mass in that order,
\* is written with kg, m and s in this order
C15_Witness ==
  /\ s1.op = "Display" /\ s1.u = "None" /\ s1.q = from_si(Force, FromInt(-2))
  /\ s1.out = <<"-", "2", " ", "k", "g", " ", "m", " ", "s", "^", "-", "2">>

\* the terms of a formatted text with the exponents they stand for
MarkedTerms(st) ==
  LET terms == Split(st.out)
      dims  == NonZeroInOrder(st.q.d)
  IN  {<<terms[j + 1], st.q.d[dims[j]]>> : j \in 1..Len(dims)}

\* C16, as stated: a symbol is followed by an exponent marker if and only
\* if the magnitude of the exponent is not 1.
C16_Original ==
  \A st \in FmtSteps : \A t \in MarkedTerms(st) : HasMarker(t[1]) <=> Abs(t[2]) # 1

\* C16: a symbol is followed by an exponent marker if and only if the
\* exponent is not 1, and the marker is ^ and the exponent in decimal with
\* its sign; an exponent of -1 is marked.
C16_ExponentMarker ==
  \A st \in FmtSteps : \A t \in MarkedTerms(st) :
    /\ HasMarker(t[1]) <=> t[2] # 1
    /\ HasMarker(t[1]) => MarkerExponent(t[1]) = IntText(t[2])

\* a length over a time is written with s^-1
C16_Witness ==
  /\ s1.op = "div" /\ a = from_si(Length, Lit(1, 10)) /\ b = from_si(Time, Lit(1, 2))
  /\ s2.op = "Display" /\ s2.u = "None"
  /\ s2.out = <<"0", ".", "2", " ", "m", " ", "s", "^", "-", "1">>

(***************************************************************************)
(* A client that passes between numbers and quantities: Unitless::from,    *)
(* f64::from, and + and - with a number on either side.                    *)
(***************************************************************************)
RawNumbers == {Lit(1, 10), FromInt(-3), Zero(1), Inf(0), NaN}
RawQuantities ==
  { from_si(Unitless, Lit(15, 10)), from_si(Unitless, Step(One, 2^22)),
    from_si(Length, Lit(1, 10)), from_si(Temperature, Lit(37315, 100)),
    from_si(<<0, 0, 0, 0, -1>>, FromInt(2)) }

RawInit ==
  /\ a \in RawQuantities
  /\ b = from_f64(One)
  /\ numbers = RawNumbers
  /\ units = [name \in UnitNames |->
                IF name = "CELSIUS" THEN CELSIUS
                ELSE IF name = "FAHRENHEIT" THEN FAHRENHEIT
                ELSE KELVIN]
  /\ s1 = Idle /\ s2 = Idle /\ s3 = Idle

RawStep(op, v, q) == [QStep(op, q) EXCEPT !.v = v]
\* a step follows none, or a first one that gave a quantity
RawOperand == Fresh \/ (Second /\ s1.op # "f64_from")

\* Unitless::from(v)
UnitlessFrom == Fresh /\ \E v \in numbers : Record(RawStep("from_f64", v, from_f64(v)))
\* f64::from(q)
F64From ==
  /\ RawOperand
  /\ Record([QStep("f64_from", IF f64_from(CurQ).ok THEN CurQ ELSE Rejected)
               EXCEPT !.x = f64_from(CurQ).x])
\* q + v, q - v, v + q, v - q
UnitlessAddF64 ==
  RawOperand /\ \E v \in numbers : Record(RawStep("Unitless_add_f64", v, Unitless_add_f64(CurQ, v)))
UnitlessSubF64 ==
  RawOperand /\ \E v \in numbers : Record(RawStep("Unitless_sub_f64", v, Unitless_sub_f64(CurQ, v)))
F64AddUnitless ==
  RawOperand /\ \E v \in numbers : Record(RawStep("f64_add_Unitless", v, f64_add_Unitless(v, CurQ)))
F64SubUnitless ==
  RawOperand /\ \E v \in numbers : Record(RawStep("f64_sub_Unitless", v, f64_sub_Unitless(v, CurQ)))

RawNext ==
  UnitlessFrom \/ F64From \/ UnitlessAddF64 \/ UnitlessSubF64 \/ F64AddUnitless \/ F64SubUnitless

SpecRaw == RawInit /\ [][RawNext]_vars

\* the steps between numbers and quantities, each with its operand
RawOps == {"f64_from", "Unitless_add_f64", "Unitless_sub_f64", "f64_add_Unitless", "f64_sub_Unitless"}
RawSteps == {<<s1, a>>, <<s2, s1.q>>}

\* C17: Unitless::from(x) is the all-zero vector with stored value x, and
\* f64::from of it is x again (the same number, NaN included); f64::from
\* and + and - with a number are accepted exactly for operands whose vector
\* is all zero, and then work on the stored values unscaled.
C17_UnitlessIsANumber ==
  /\ s1.op = "from_f64" => s1.q = [ok |-> TRUE, d |-> <<0, 0, 0, 0, 0>>, v |-> s1.v]
  /\ s1.op = "from_f64" /\ s2.op = "f64_from" => s2.q.ok /\ s2.x = s1.v
  /\ \A t \in RawSteps :
       t[1].op \in RawOps =>
         /\ t[1].q.ok <=> (t[2].ok /\ \A i \in Dims : t[2].d[i] = 0)
         /\ t[1].q.ok => t[1].q.d = <<0, 0, 0, 0, 0>>
         /\ t[1].q.ok /\ t[1].op = "f64_from" => t[1].x = t[2].v
         /\ t[1].q.ok /\ t[1].op = "Unitless_add_f64" => t[1].q.v = FAdd(t[2].v, t[1].v)
         /\ t[1].q.ok /\ t[1].op = "Unitless_sub_f64" => t[1].q.v = FSub(t[2].v, t[1].v)
         /\ t[1].q.ok /\ t[1].op = "f64_add_Unitless" => t[1].q.v = FAdd(t[1].v, t[2].v)
         /\ t[1].q.ok /\ t[1].op = "f64_sub_Unitless" => t[1].q.v = FSub(t[1].v, t[2].v)

\* 0.1 made a quantity and read back
C17_Witness ==
  /\ s1.op = "from_f64" /\ s1.v = Lit(1, 10)
  /\ s2.op = "f64_from" /\ s2.x = Lit(1, 10)
  /\ s1.q.d = Unitless /\ s1.q.v = Lit(1, 10)

\* the arithmetic steps of a behaviour, each with its first operand
ArithOps ==
  {"add", "sub", "neg", "mul", "div", "mul_f64", "div_f64", "f64_mul", "f64_div", "pow", "root"}
ArithSteps == {t \in {<<s1, a>>, <<s2, s1.q>>, <<s3, s2.q>>} : t[1].op \in ArithOps /\ t[2].ok}

\* the exponent vector of the expression a step computes, from the vectors
\* of its operands alone; d is the first operand's, e the second's
SameVector(op) == op \in {"add", "sub", "neg", "mul_f64", "div_f64", "f64_mul"}
ExponentVector(op, P, d, e) ==
  [i \in Dims |->
     IF SameVector(op) THEN d[i]
     ELSE IF op = "f64_div" THEN 0 - d[i]
     ELSE IF op = "mul" THEN d[i] + e[i]
     ELSE IF op = "div" THEN d[i] - e[i]
     ELSE IF op = "pow" THEN (IF d[i] = 0 THEN 0 ELSE P.lo * d[i])
     ELSE CHOOSE c \in (0 - Abs(d[i]))..Abs(d[i]) : c * P.lo = d[i]]
\* whether the expression has a type
Accepted(op, P, d, e) ==
  IF op \in {"add", "sub"} THEN d = e
  ELSE IF op = "root"
       THEN IF IsI32(P) THEN P.lo # 0 /\ \A i \in Dims : d[i] % Abs(P.lo) = 0
            ELSE \A i \in Dims : d[i] = 0
  ELSE TRUE
IsVector(d) == DOMAIN d = 1..5 /\ \A i \in 1..5 : d[i] \in Int

\* C18, as stated: a result's vector is five integers given by the
\* operation and the operands' vectors alone; add, sub, neg and the
\* products and quotients with a number leave the vector unchanged,
\* number / quantity included, and an accepted root divides exactly.
C18_Original ==
  \A t \in ArithSteps :
    LET st == t[1]
        d  == t[2].d
    IN  /\ st.q.ok <=> Accepted(st.op, st.P, d, b.d)
        /\ st.q.ok =>
             /\ IsVector(st.q.d)
             /\ st.op # "f64_div" => st.q.d = ExponentVector(st.op, st.P, d, b.d)
             /\ (SameVector(st.op) \/ st.op = "f64_div") => st.q.d = d
             /\ st.op = "root" => \A i \in Dims : st.q.d[i] * st.P.lo = d[i]

\* C18: a result's vector is five integers given by the operation and the
\* operands' vectors alone, whatever the stored values: add, sub, neg,
\* quantity * number, number * quantity and quantity / number leave the
\* vector unchanged, number / quantity negates it, mul adds and div
\* subtracts the vectors, pow::<P> multiplies by P, and root::<R> is
\* accepted exactly when R is not 0 and divides every component, with R
\* times the result's component the operand's.
C18_DimensionVector ==
  \A t \in ArithSteps :
    LET st == t[1]
        d  == t[2].d
    IN  /\ st.q.ok <=> Accepted(st.op, st.P, d, b.d)
        /\ st.q.ok =>
             /\ IsVector(st.q.d)
             /\ st.q.d = ExponentVector(st.op, st.P, d, b.d)
             /\ SameVector(st.op) => st.q.d = d
             /\ st.op = "root" => \A i \in Dims : st.q.d[i] * st.P.lo = d[i]

\* the square of a force and its square root: the vector goes to
\* <<-4, 2, 2, 0, 0>> and back, and 100 / force has the negated vector
C18_Witness ==
  /\ a.d = Force
  /\ \/ /\ s1.op = "pow" /\ s1.P = Isize(2) /\ s1.q.d = <<-4, 2, 2, 0, 0>>
        /\ s2.op = "root" /\ s2.P = Isize(2) /\ s2.q.ok /\ s2.q.d = <<-2, 1, 1, 0, 0>>
     \/ s1.op = "f64_div" /\ s1.q.d = <<2, -1, -1, 0, 0>>

\* C19, as stated: the exponent pow::<P> hands to powi is P itself, for
\* every isize P, so that the stored value is raised to exactly the P that
\* multiplies the vector.
C19_ExponentAgrees ==
  s1.op = "pow" =>
    /\ Isize(as_i32(s1.P)) = s1.P
    /\ IsFinite(a.v) => PowValue(a.v, s1.P, s1.q.v)

\* pow::<4294967296> of the Unitless 1 + 2^-30 is exactly 1.0: the exponent
\* was narrowed to 0
C19_Witness ==
  /\ s1.op = "pow" /\ s1.P = [hi |-> 1, lo |-> 0] /\ as_i32(s1.P) = 0
  /\ a.d = Unitless /\ a.v = Step(One, 2^22)
  /\ s1.q.d = Unitless /\ s1.q.v = One

(***************************************************************************)
(* LogUnit<Dimen>: scale is the stored scale, in units per octave, and     *)
(* reference the quantity that reads 0.  What goes through exp2 or log2    *)
(* is a set: the results libm allows.                                      *)
(***************************************************************************)
\* a faulty variant: the logarithm of the stored value, not of its ratio to
\* the reference
LogUnit_qty_to_val_absolute(self, value) == {FMul(self.scale, l) : l \in log2(as_si(value))}

LogUnit_new(base, scale, reference) ==
  {[scale |-> FDiv(scale, l), reference |-> reference] : l \in log2(base)}
LogUnit_base2(scale, reference) == [scale |-> scale, reference |-> reference]
LogUnit_base10(scale, reference) == LogUnit_base2(FDiv(scale, LOG2_10), reference)
LogUnit_basee(scale, reference) == LogUnit_base2(FDiv(scale, LOG2_E), reference)

LogUnit_ratio(self, value) == into_f64(div(value, self.reference))
LogUnit_qty_to_val(self, value) ==
  {FMul(self.scale, l) : l \in log2(LogUnit_ratio(self, value))}
LogUnit_val_to_qty(self, value) ==
  {f64_mul(ratio, self.reference) : ratio \in exp2(FDiv(value, self.scale))}
LogUnit_qty_of(self, val) == LogUnit_val_to_qty(self, val)
f64_mul_LogUnit(lhs, rhs) == LogUnit_val_to_qty(rhs, lhs)

(***************************************************************************)
(* A client that builds logarithmic units on a reference quantity a with   *)
(* each constructor, makes quantities from numbers and reads quantities,   *)
(* the reference among them.                                               *)
(***************************************************************************)
LogUnitNames ==
  {"base2(1.0)", "base2(0.0)", "base10(20.0)", "basee(1.0)", "new(10.0, 10.0)", "new(1.0, 1.0)"}
LogReferences ==
  {from_si(Length, One), from_si(<<-2, -1, 1, 0, 0>>, Lit(2, 100000)), from_si(Length, Zero(0))}
LogNumbers == {Zero(0), One, FromInt(-3), FromInt(20), Lit(1, 10000), FromInt(10000)}

LogInit ==
  /\ a \in LogReferences
  /\ b = a
  /\ numbers = LogNumbers
  /\ \E u \in LogUnit_new(FromInt(10), FromInt(10), a) :
       units = [name \in LogUnitNames |->
                  IF name = "base2(1.0)" THEN LogUnit_base2(One, a)
                  ELSE IF name = "base2(0.0)" THEN LogUnit_base2(Zero(0), a)
                  ELSE IF name = "base10(20.0)" THEN LogUnit_base10(FromInt(20), a)
                  ELSE IF name = "basee(1.0)" THEN LogUnit_basee(One, a)
                  ELSE IF name = "new(10.0, 10.0)" THEN u
                  ELSE CHOOSE w \in LogUnit_new(One, One, a) : TRUE]
  /\ s1 = Idle /\ s2 = Idle /\ s3 = Idle

LogStep(op, name, v, q) == [QStep(op, q) EXCEPT !.u = name, !.v = v]

\* L.val_to_qty(v)
LogValToQty ==
  /\ Fresh
  /\ \E name \in LogUnitNames, v \in numbers :
       /\ Exp2Modelled(FDiv(v, UnitOf(name).scale))
       /\ \E q \in LogUnit_val_to_qty(UnitOf(name), v) :
            Record(LogStep("LogUnit_val_to_qty", name, v, q))
\* L.qty_of(v)
LogQtyOf ==
  /\ Fresh
  /\ \E name \in LogUnitNames, v \in numbers :
       /\ Exp2Modelled(FDiv(v, UnitOf(name).scale))
       /\ \E q \in LogUnit_qty_of(UnitOf(name), v) : Record(LogStep("LogUnit_qty_of", name, v, q))
\* v * L
F64MulLogUnit ==
  /\ Fresh
  /\ \E name \in LogUnitNames, v \in numbers :
       /\ Exp2Modelled(FDiv(v, UnitOf(name).scale))
       /\ \E q \in f64_mul_LogUnit(v, UnitOf(name)) : Record(LogStep("f64_mul_LogUnit", name, v, q))
\* q.as_unit(L), of the reference or of what val_to_qty made in the same unit
LogQtyToVal ==
  /\ \E name \in LogUnitNames :
       /\ Fresh \/ (Second /\ s1.op = "LogUnit_val_to_qty" /\ s1.u = name)
       /\ Log2Modelled(LogUnit_ratio(UnitOf(name), CurQ))
       /\ \E x \in LogUnit_qty_to_val(UnitOf(name), CurQ) :
            Record([QStep("LogUnit_qty_to_val", CurQ) EXCEPT !.u = name, !.x = x])

LogNext == LogValToQty \/ LogQtyOf \/ F64MulLogUnit \/ LogQtyToVal

SpecLog == LogInit /\ [][LogNext]_vars

\* a number made a quantity and read back in the same unit; the reference read
LogRoundTrip ==
  s1.op = "LogUnit_val_to_qty" /\ s2.op = "LogUnit_qty_to_val" /\ s2.u = s1.u
ReferenceRead == s1.op = "LogUnit_qty_to_val"

\* C13, as stated (with the spec's tolerance): for every LogUnit L and every
\* number x, qty_to_val(L, val_to_qty(L, x)) is x, and qty_to_val(L,
\* reference) is 0.
C13_Original ==
  /\ LogRoundTrip => Close(s2.x, s1.v)
  /\ ReferenceRead => FEq(s1.x, Zero(0))

\* a unit whose stored scale and reference are finite and not 0
ProperLogUnit(L) ==
  /\ IsFinite(L.scale) /\ ~IsZero(L.scale)
  /\ IsFinite(L.reference.v) /\ ~IsZero(L.reference.v)

\* C13: for a LogUnit L whose stored scale and reference are finite and
\* not 0, and a number x for which 2^(x / scale) * reference and its ratio
\* to the reference are normal finite numbers, qty_to_val(L, val_to_qty(L,
\* x)) is x within Tolerance of the larger of |x| and |scale|; and
\* qty_to_val(L, reference) is 0 whenever the reference is finite and not
\* 0 and the stored scale is finite.
C13_LogUnitRoundTrip ==
  /\ LogRoundTrip /\ ProperLogUnit(UnitOf(s1.u))
       /\ IsNormal(s1.q.v) /\ IsNormal(LogUnit_ratio(UnitOf(s1.u), s1.q)) =>
       Within(s2.x, s1.v, FMaxAbs(s1.v, UnitOf(s1.u).scale))
  /\ ReferenceRead /\ IsFinite(a.v) /\ ~IsZero(a.v) /\ IsFinite(UnitOf(s1.u).scale) =>
       FEq(s1.x, Zero(0))

\* 1.0 in 20 units per decade over a reference of 2e-5 comes back as a
\* neighbour of 1.0, and the reference reads 0
C13_Witness ==
  /\ a.v = Lit(2, 100000)
  /\ \/ /\ LogRoundTrip /\ s1.u = "base10(20.0)" /\ s1.v = One
        /\ s2.x # One /\ Within(s2.x, One, UnitOf(s1.u).scale)
     \/ ReferenceRead /\ s1.u = "base10(20.0)" /\ s1.x = Zero(0)

====
